---- MODULE Spec2Model ----
(***************************************************************************)
(* AnkiGarden: the garden state machine of src/state.py (AddonState), the  *)
(* evolution pass of src/garden_scene.py (refresh_items) and the file      *)
(* protocol of AddonState._safe_write.                                      *)
(*                                                                         *)
(* Time is counted in whole days: timedelta(days=k) is the integer k and a *)
(* timestamp is the integer instant its ISO-8601 text denotes.  An         *)
(* optional value (None in the source) is the empty sequence, a present    *)
(* value v is <<v>>.                                                       *)
(***************************************************************************)
EXTENDS Integers, Sequences, FiniteSets, TLC

\* ------------------------------------------------------------------------
\* Constants of src/constants.py.  The grid is scaled down from 15 x 7.
\* ------------------------------------------------------------------------
GARDEN_WIDTH == 3
GARDEN_HEIGHT == 3

INVENTORY_KEYS == {"water", "plants", "trees", "sunlight", "coins", "seeds", "path"}

COLORFUL_PLANT_COLORS ==
    {"red", "orange", "yellow", "dark_blue", "light_blue", "purple", "pink", "teal"}

AESTHETIC_MODES == {"default", "night", "summer", "winter", "spring", "autumn"}

CURRENT_SCHEMA_VERSION == 1

\* ------------------------------------------------------------------------
\* Bounds of the model.
\* ------------------------------------------------------------------------
\* the clock stops advancing at MaxNow days
MaxNow == 15
\* number of tile ids (uuid4 values) handed out
MaxIds == 2
\* number of path edges the overlay list may hold
MaxPaths == 3
\* number of chunks the serialized document is written in
TextChunks == 2
\* number of tokens award_token hands out in the persistence specification
MaxAwards == 2
\* days the garden is left alone in the operation-surface specification
SurfaceDays == 3
\* correct answers given in the operation-surface specification
SurfaceStreak == 1
\* the shop is visited while fewer than SurfacePurse coins are held
SurfacePurse == 40
\* days the clock runs in the placement specification
PlaceDays == 2
\* latest bloom_until of a stored tile in the status specification
StatusBloom == 6
\* the day the evolution specification starts at, with a tile planted earlier
EvolveStart == 7
\* days the clock runs in the evolution specification
EvolveDays == 3
\* correct answers given in the theme specification
ThemeAnswers == 1
\* purchases made in the shop specification
MaxPurchases == 2
\* correct answers given in the streak specification, over all runs
StreakAnswers == 52
\* coins earned in the fault specification, a failed save counted
FaultAnswers == 17

VARIABLES
    now,              \* utc_now(), in days
    inventory,        \* data["inventory"]
    tiles,            \* data["garden"]["tiles"], index -> tile or None
    paths,            \* data["paths"], a list of edges
    aesthetic_mode,   \* data["aesthetic_mode"]
    unlocked_themes,  \* data["unlocked_themes"], a list
    nextId,           \* the next fresh uuid
    disk,             \* the canonical state file
    tmp,              \* the temporary file beside it
    savePc,           \* position inside _safe_write ("idle" outside)
    saveOld,          \* the canonical file's content when the running save began
    ret,              \* the last operation and what it returned
    current_streak,   \* StreakTracker.current_streak
    awarded_multiples \* StreakTracker.awarded_multiples, a set of pairs

vars == <<now, inventory, tiles, paths, aesthetic_mode, unlocked_themes,
          nextId, disk, tmp, savePc, saveOld, ret,
          current_streak, awarded_multiples>>

\* ------------------------------------------------------------------------
\* Helpers
\* ------------------------------------------------------------------------
NumTiles == GARDEN_WIDTH * GARDEN_HEIGHT
Indices == 0 .. (NumTiles - 1)

\* Optional values.
Absent == << >>
Some(x) == << x >>
IsSome(o) == Len(o) > 0
Val(o) == o[1]

\* An empty cell (None in the tiles list).
None == [id |-> 0, kind |-> "none", evolution_stage |-> "none", color |-> "none",
         planted_at |-> Absent, last_watered_at |-> Absent, bloom_until |-> Absent,
         row |-> 0, col |-> 0, is_reference |-> FALSE]

row_col_to_index(row, col) ==
    IF row < 0 \/ col < 0 THEN Absent
    ELSE IF row >= GARDEN_HEIGHT \/ col >= GARDEN_WIDTH THEN Absent
    ELSE Some(row * GARDEN_WIDTH + col)

\* divmod(idx, GARDEN_WIDTH)
index_to_row(idx) == idx \div GARDEN_WIDTH
index_to_col(idx) == idx % GARDEN_WIDTH

default_inventory == [k \in INVENTORY_KEYS |-> 0]

default_garden == [i \in Indices |-> None]

\* The block offsets in the order of "for dr in range(2): for dc in range(2)".
BlockOffsets == << <<0, 0>>, <<0, 1>>, <<1, 0>>, <<1, 1>> >>

\* The four indices of the 2x2 block anchored at (row, col), all in bounds.
BlockCells(row, col) ==
    { (row + BlockOffsets[k][1]) * GARDEN_WIDTH + (col + BlockOffsets[k][2]) : k \in 1 .. 4 }

\* ------------------------------------------------------------------------
\* Persistence: the document, its JSON text, the files
\* ------------------------------------------------------------------------
\* json.dumps writes a tuple as an array; json.load reads every array as a list.
PathToJson(p) == [row |-> p.row, col |-> p.col, direction |-> p.direction, is_tuple |-> FALSE]


\* json.dumps(self.data): the text of a document.
\* root is the JSON type of the top-level value; width and height are
\* those of data["garden"].
Serialize(inv, tl, ps, mode, themes) ==
    [root |-> "object", schema_version |-> Some(CURRENT_SCHEMA_VERSION),
     inventory |-> inv, width |-> GARDEN_WIDTH, height |-> GARDEN_HEIGHT,
     tiles |-> tl, paths |-> [i \in 1 .. Len(ps) |-> PathToJson(ps[i])],
     aesthetic_mode |-> mode, unlocked_themes |-> themes]

initial_state ==
    [root |-> "object", schema_version |-> Some(CURRENT_SCHEMA_VERSION),
     inventory |-> [default_inventory EXCEPT !["water"] = 3, !["plants"] = 1],
     width |-> GARDEN_WIDTH, height |-> GARDEN_HEIGHT,
     tiles |-> default_garden, paths |-> << >>,
     aesthetic_mode |-> "default", unlocked_themes |-> << "default" >>]

\* A file: absent, or the first `len` chunks of the text of `doc`.
NoFile == [exists |-> FALSE, doc |-> initial_state, len |-> 0]
FileOf(doc, n) == [exists |-> TRUE, doc |-> doc, len |-> n]
IsComplete(f) == f.exists /\ f.len = TextChunks

\* _save as one step: _safe_write run to its end (the temporary file is gone).
Saved(inv, tl, ps, mode, themes) == FileOf(Serialize(inv, tl, ps, mode, themes), TextChunks)


\* ------------------------------------------------------------------------
\* Tile lifecycle: tile_status
\* ------------------------------------------------------------------------
TileStatus(empty, blooming, wilted, dead, level) ==
    [is_empty |-> empty, is_blooming |-> blooming, is_wilted |-> wilted,
     is_dead |-> dead, wilt_level |-> level]

\* tile_status with the plant dead at 3 days already.
tile_status_PlantDiesEarly(tile, t) ==
    IF tile = None THEN TileStatus(TRUE, FALSE, FALSE, FALSE, 0)
    ELSE
      LET blooming == IsSome(tile.bloom_until) /\ Val(tile.bloom_until) > t
      IN IF ~IsSome(tile.last_watered_at)
         THEN TileStatus(FALSE, blooming, FALSE, TRUE, 0)
         ELSE
           LET delta == t - Val(tile.last_watered_at)
               kind == tile.kind
           IN IF kind = "plant" THEN
                   IF delta >= 3 THEN TileStatus(FALSE, blooming, FALSE, TRUE, 0)
                   ELSE IF delta >= 2 THEN TileStatus(FALSE, blooming, TRUE, FALSE, 2)
                   ELSE IF delta >= 1 THEN TileStatus(FALSE, blooming, TRUE, FALSE, 1)
                   ELSE TileStatus(FALSE, blooming, FALSE, FALSE, 0)
              ELSE IF kind = "tree" THEN
                   IF delta > 2 THEN TileStatus(FALSE, blooming, FALSE, TRUE, 0)
                   ELSE IF delta >= 1 THEN TileStatus(FALSE, blooming, TRUE, FALSE, 0)
                   ELSE TileStatus(FALSE, blooming, FALSE, FALSE, 0)
              ELSE IF kind \in {"seed", "colorful_plant", "cherry_blossom"} THEN
                   IF delta > 2 THEN TileStatus(FALSE, blooming, FALSE, TRUE, 0)
                   ELSE IF delta >= 1 THEN TileStatus(FALSE, blooming, TRUE, FALSE, 1)
                   ELSE TileStatus(FALSE, blooming, FALSE, FALSE, 0)
              ELSE TileStatus(FALSE, blooming, FALSE, FALSE, 0)

\* tile_status that reports no bloom for a tile without a watering time.
tile_status_DeadNeverBlooms(tile, t) ==
    IF tile = None THEN TileStatus(TRUE, FALSE, FALSE, FALSE, 0)
    ELSE
      LET blooming == IsSome(tile.bloom_until) /\ Val(tile.bloom_until) > t
      IN IF ~IsSome(tile.last_watered_at)
         THEN TileStatus(FALSE, FALSE, FALSE, TRUE, 0)
         ELSE
           LET delta == t - Val(tile.last_watered_at)
               kind == tile.kind
           IN IF kind = "plant" THEN
                   IF delta > 3 THEN TileStatus(FALSE, blooming, FALSE, TRUE, 0)
                   ELSE IF delta >= 2 THEN TileStatus(FALSE, blooming, TRUE, FALSE, 2)
                   ELSE IF delta >= 1 THEN TileStatus(FALSE, blooming, TRUE, FALSE, 1)
                   ELSE TileStatus(FALSE, blooming, FALSE, FALSE, 0)
              ELSE IF kind = "tree" THEN
                   IF delta > 2 THEN TileStatus(FALSE, blooming, FALSE, TRUE, 0)
                   ELSE IF delta >= 1 THEN TileStatus(FALSE, blooming, TRUE, FALSE, 0)
                   ELSE TileStatus(FALSE, blooming, FALSE, FALSE, 0)
              ELSE IF kind \in {"seed", "colorful_plant", "cherry_blossom"} THEN
                   IF delta > 2 THEN TileStatus(FALSE, blooming, FALSE, TRUE, 0)
                   ELSE IF delta >= 1 THEN TileStatus(FALSE, blooming, TRUE, FALSE, 1)
                   ELSE TileStatus(FALSE, blooming, FALSE, FALSE, 0)
              ELSE TileStatus(FALSE, blooming, FALSE, FALSE, 0)

tile_status(tile, t) ==
    IF tile = None THEN TileStatus(TRUE, FALSE, FALSE, FALSE, 0)
    ELSE
      LET blooming == IsSome(tile.bloom_until) /\ Val(tile.bloom_until) > t
      IN IF ~IsSome(tile.last_watered_at)
         THEN TileStatus(FALSE, blooming, FALSE, TRUE, 0)
         ELSE
           LET delta == t - Val(tile.last_watered_at)
               kind == tile.kind
           IN IF kind = "plant" THEN
                   IF delta > 3 THEN TileStatus(FALSE, blooming, FALSE, TRUE, 0)
                   ELSE IF delta >= 2 THEN TileStatus(FALSE, blooming, TRUE, FALSE, 2)
                   ELSE IF delta >= 1 THEN TileStatus(FALSE, blooming, TRUE, FALSE, 1)
                   ELSE TileStatus(FALSE, blooming, FALSE, FALSE, 0)
              ELSE IF kind = "tree" THEN
                   IF delta > 2 THEN TileStatus(FALSE, blooming, FALSE, TRUE, 0)
                   ELSE IF delta >= 1 THEN TileStatus(FALSE, blooming, TRUE, FALSE, 0)
                   ELSE TileStatus(FALSE, blooming, FALSE, FALSE, 0)
              ELSE IF kind \in {"seed", "colorful_plant", "cherry_blossom"} THEN
                   IF delta > 2 THEN TileStatus(FALSE, blooming, FALSE, TRUE, 0)
                   ELSE IF delta >= 1 THEN TileStatus(FALSE, blooming, TRUE, FALSE, 1)
                   ELSE TileStatus(FALSE, blooming, FALSE, FALSE, 0)
              ELSE TileStatus(FALSE, blooming, FALSE, FALSE, 0)

\* ------------------------------------------------------------------------
\* Garden operations.  Each is a function of the document before the call;
\* its value holds the return value (ok), the document after the call and
\* whether the call reached self._save() (saved).
\* ------------------------------------------------------------------------
Outcome(ok, saved, inv, tl, ids) ==
    [ok |-> ok, saved |-> saved, inventory |-> inv, tiles |-> tl, ids |-> ids]

TwoByTwoKinds == {"tree", "cherry_blossom"}

\* _create_tile that leaves the new tile without a watering time.
_create_tile_Unwatered(kind, row, col, id, t) ==
    [id |-> id, kind |-> kind,
     evolution_stage |-> IF kind = "seed" THEN "seed" ELSE "none",
     color |-> "none",
     planted_at |-> Some(t), last_watered_at |-> Absent, bloom_until |-> Absent,
     row |-> row, col |-> col, is_reference |-> FALSE]

_create_tile(kind, row, col, id, t) ==
    [id |-> id, kind |-> kind,
     evolution_stage |-> IF kind = "seed" THEN "seed" ELSE "none",
     color |-> "none",
     planted_at |-> Some(t), last_watered_at |-> Some(t), bloom_until |-> Absent,
     row |-> row, col |-> col, is_reference |-> FALSE]

InventoryKeyOf(kind) ==
    IF kind = "plant" THEN "plants" ELSE IF kind = "tree" THEN "trees" ELSE "seeds"

place_at_index(inv, tl, kind, idx, id, t) ==
    LET fail == Outcome(FALSE, FALSE, inv, tl, {})
        row == index_to_row(idx)
        col == index_to_col(idx)
    IN IF kind \notin {"plant", "tree", "seed"} THEN fail
       ELSE IF idx < 0 \/ idx >= NumTiles THEN fail
       ELSE IF kind = "tree"
               /\ (row < 0 \/ col < 0 \/ row >= GARDEN_HEIGHT - 1 \/ col >= GARDEN_WIDTH - 1)
            THEN fail
       ELSE IF kind = "tree" /\ \E c \in BlockCells(row, col) : tl[c] # None THEN fail
       ELSE IF kind # "tree" /\ tl[idx] # None THEN fail
       ELSE IF inv[InventoryKeyOf(kind)] <= 0 THEN fail
       ELSE Outcome(TRUE, TRUE,
                    [inv EXCEPT ![InventoryKeyOf(kind)] = @ - 1],
                    [tl EXCEPT ![idx] = _create_tile(kind, row, col, id, t)],
                    {id})

\* "if t is not None and t.get('id') == main_id and t.get('is_reference'): tiles[t_idx] = None"
ClearReferences(tl, main_id) ==
    [i \in Indices |->
        IF tl[i] # None /\ tl[i].id = main_id /\ tl[i].is_reference THEN None ELSE tl[i]]

\* The reference record move_tile and _evolve_tile_if_needed write beside a primary.
ReferenceTile(tile, stage, row, col) ==
    [id |-> tile.id, kind |-> "cherry_blossom", evolution_stage |-> stage,
     color |-> tile.color,
     planted_at |-> tile.planted_at, last_watered_at |-> tile.last_watered_at,
     bloom_until |-> tile.bloom_until,
     row |-> row, col |-> col, is_reference |-> TRUE]

move_tile(inv, tl, from_idx, to_idx) ==
    LET fail == Outcome(FALSE, FALSE, inv, tl, {}) IN
    IF from_idx < 0 \/ to_idx < 0 \/ from_idx >= NumTiles \/ to_idx >= NumTiles
       \/ from_idx = to_idx
    THEN fail
    ELSE IF tl[from_idx] = None THEN fail
    ELSE
      LET tile == tl[from_idx]
          kind == tile.kind
          to_row == index_to_row(to_idx)
          to_col == index_to_col(to_idx)
          moved == [tile EXCEPT !.row = to_row, !.col = to_col]
      IN IF kind \in TwoByTwoKinds THEN
            IF to_row < 0 \/ to_col < 0 \/ to_row >= GARDEN_HEIGHT - 1
               \/ to_col >= GARDEN_WIDTH - 1
            THEN fail
            ELSE
              LET block == BlockCells(to_row, to_col)
                  \* the references are cleared before the destination is checked
                  cleared == IF kind = "cherry_blossom"
                             THEN ClearReferences(tl, tile.id) ELSE tl
                  free == \A c \in block : c = from_idx \/ cleared[c] = None
                  recreated ==
                      IF kind = "cherry_blossom"
                      THEN [i \in Indices |->
                              IF i \in block /\ i # to_idx
                              THEN ReferenceTile(tile, tile.evolution_stage,
                                                 index_to_row(i), index_to_col(i))
                              ELSE cleared[i]]
                      ELSE cleared
              IN IF ~free THEN Outcome(FALSE, FALSE, inv, cleared, {})
                 ELSE Outcome(TRUE, TRUE, inv,
                              [recreated EXCEPT ![to_idx] = moved, ![from_idx] = None],
                              {tile.id})
         ELSE IF tl[to_idx] # None THEN fail
         ELSE Outcome(TRUE, TRUE, inv,
                      [tl EXCEPT ![to_idx] = moved, ![from_idx] = None], {tile.id})

\* A timestamp made older by `days`; a missing one stays missing.
ShiftBack(stamp, days) == IF IsSome(stamp) THEN Some(Val(stamp) - days) ELSE stamp

HasTimestamp(tile) ==
    IsSome(tile.last_watered_at) \/ IsSome(tile.planted_at) \/ IsSome(tile.bloom_until)

\* fast_forward_time that passes over the reference records.
fast_forward_time_MainsOnly(inv, tl, days) ==
    LET changed == \E i \in Indices : tl[i] # None /\ HasTimestamp(tl[i])
    IN Outcome(changed, changed, inv,
               [i \in Indices |->
                  IF tl[i] = None \/ tl[i].is_reference THEN tl[i]
                  ELSE [tl[i] EXCEPT !.last_watered_at = ShiftBack(@, days),
                                     !.planted_at = ShiftBack(@, days),
                                     !.bloom_until = ShiftBack(@, days)]],
               {})

\* fast_forward_time: every record's timestamps go back by `days`; saved and
\* True when a timestamp was there to shift.
fast_forward_time(inv, tl, days) ==
    LET changed == \E i \in Indices : tl[i] # None /\ HasTimestamp(tl[i])
    IN Outcome(changed, changed, inv,
               [i \in Indices |->
                  IF tl[i] = None THEN tl[i]
                  ELSE [tl[i] EXCEPT !.last_watered_at = ShiftBack(@, days),
                                     !.planted_at = ShiftBack(@, days),
                                     !.bloom_until = ShiftBack(@, days)]],
               {})

\* "for tile in tiles: ... if not status.is_dead: has_living = True"
HasLiving(tl, t) == \E i \in Indices : tl[i] # None /\ ~tile_status(tl[i], t).is_dead

\* water_all that waters dead tiles as well.
water_all_OnDeadToo(inv, tl, t) ==
    IF ~HasLiving(tl, t) THEN Outcome(FALSE, FALSE, inv, tl, {})
    ELSE IF inv["water"] < 1 THEN Outcome(FALSE, FALSE, inv, tl, {})
    ELSE Outcome(TRUE, TRUE, [inv EXCEPT !["water"] = @ - 1],
                 [i \in Indices |->
                    IF tl[i] # None
                    THEN [tl[i] EXCEPT !.last_watered_at = Some(t)] ELSE tl[i]],
                 {tl[i].id : i \in {j \in Indices :
                                      tl[j] # None /\ ~tile_status(tl[j], t).is_dead}})

water_all(inv, tl, t) ==
    IF ~HasLiving(tl, t) THEN Outcome(FALSE, FALSE, inv, tl, {})
    ELSE IF inv["water"] < 1 THEN Outcome(FALSE, FALSE, inv, tl, {})
    ELSE Outcome(TRUE, TRUE, [inv EXCEPT !["water"] = @ - 1],
                 [i \in Indices |->
                    IF tl[i] # None /\ ~tile_status(tl[i], t).is_dead
                    THEN [tl[i] EXCEPT !.last_watered_at = Some(t)] ELSE tl[i]],
                 {tl[i].id : i \in {j \in Indices :
                                      tl[j] # None /\ ~tile_status(tl[j], t).is_dead}})

\* apply_sunlight that makes dead tiles bloom as well.
apply_sunlight_OnDeadToo(inv, tl, t) ==
    IF ~HasLiving(tl, t) THEN Outcome(FALSE, FALSE, inv, tl, {})
    ELSE IF inv["sunlight"] < 1 THEN Outcome(FALSE, FALSE, inv, tl, {})
    ELSE Outcome(TRUE, TRUE, [inv EXCEPT !["sunlight"] = @ - 1],
                 [i \in Indices |->
                    IF tl[i] # None
                    THEN [tl[i] EXCEPT !.bloom_until = Some(t + 1)] ELSE tl[i]],
                 {tl[i].id : i \in {j \in Indices :
                                      tl[j] # None /\ ~tile_status(tl[j], t).is_dead}})

apply_sunlight(inv, tl, t) ==
    IF ~HasLiving(tl, t) THEN Outcome(FALSE, FALSE, inv, tl, {})
    ELSE IF inv["sunlight"] < 1 THEN Outcome(FALSE, FALSE, inv, tl, {})
    ELSE Outcome(TRUE, TRUE, [inv EXCEPT !["sunlight"] = @ - 1],
                 [i \in Indices |->
                    IF tl[i] # None /\ ~tile_status(tl[i], t).is_dead
                    THEN [tl[i] EXCEPT !.bloom_until = Some(t + 1)] ELSE tl[i]],
                 {tl[i].id : i \in {j \in Indices :
                                      tl[j] # None /\ ~tile_status(tl[j], t).is_dead}})

\* clear_dead's loop from index idx on: "for idx, tile in enumerate(tiles)".
RECURSIVE ClearDeadFrom(_, _, _)
ClearDeadFrom(tl, idx, t) ==
    IF idx >= NumTiles THEN tl
    ELSE IF tl[idx] = None THEN ClearDeadFrom(tl, idx + 1, t)
    ELSE IF tile_status(tl[idx], t).is_dead
         THEN LET tile == tl[idx]
                  freed == [tl EXCEPT ![idx] = None]
              IN ClearDeadFrom(IF tile.kind \in TwoByTwoKinds
                               THEN ClearReferences(freed, tile.id) ELSE freed,
                               idx + 1, t)
         ELSE ClearDeadFrom(tl, idx + 1, t)

clear_dead(inv, tl, t) ==
    LET after == ClearDeadFrom(tl, 0, t)
        changed == after # tl
    IN Outcome(changed, changed, inv, after,
               {tl[i].id : i \in {j \in Indices : tl[j] # None /\ after[j] = None}})

RemoveCredit(kind) ==
    IF kind = "plant" THEN "plants" ELSE IF kind = "tree" THEN "trees" ELSE "seeds"

\* remove_object_at_index that frees the clicked cell only.
remove_object_at_index_KeepReferences(inv, tl, idx) ==
    LET fail == Outcome(FALSE, FALSE, inv, tl, {}) IN
    IF idx < 0 \/ idx >= NumTiles THEN fail
    ELSE IF tl[idx] = None THEN fail
    ELSE IF tl[idx].is_reference THEN fail
    ELSE
      LET tile == tl[idx]
          kind == tile.kind
          freed == [tl EXCEPT ![idx] = None]
      IN IF kind \in {"plant", "seed", "colorful_plant"}
         THEN Outcome(TRUE, TRUE, [inv EXCEPT ![RemoveCredit(kind)] = @ + 1], freed, {tile.id})
         ELSE IF kind \in TwoByTwoKinds
         THEN Outcome(TRUE, TRUE, [inv EXCEPT ![RemoveCredit(kind)] = @ + 1],
                      freed, {tile.id})
         ELSE fail

remove_object_at_index(inv, tl, idx) ==
    LET fail == Outcome(FALSE, FALSE, inv, tl, {}) IN
    IF idx < 0 \/ idx >= NumTiles THEN fail
    ELSE IF tl[idx] = None THEN fail
    ELSE IF tl[idx].is_reference THEN fail
    ELSE
      LET tile == tl[idx]
          kind == tile.kind
          freed == [tl EXCEPT ![idx] = None]
      IN IF kind \in {"plant", "seed", "colorful_plant"}
         THEN Outcome(TRUE, TRUE, [inv EXCEPT ![RemoveCredit(kind)] = @ + 1], freed, {tile.id})
         ELSE IF kind \in TwoByTwoKinds
         THEN Outcome(TRUE, TRUE, [inv EXCEPT ![RemoveCredit(kind)] = @ + 1],
                      ClearReferences(freed, tile.id), {tile.id})
         ELSE fail


IsMainTree(tile) == tile # None /\ tile.kind \in TwoByTwoKinds /\ ~tile.is_reference

\* The loop of _find_tree_at_tile from the k-th block offset on: the first
\* main tree or cherry blossom up/left of (row, col) whose block holds (row, col).
RECURSIVE FindTreeFrom(_, _, _, _)
FindTreeFrom(tl, row, col, k) ==
    IF k > 4 THEN Absent
    ELSE
      LET check_idx == row_col_to_index(row - BlockOffsets[k][1], col - BlockOffsets[k][2])
      IN IF IsSome(check_idx) /\ IsMainTree(tl[Val(check_idx)])
            /\ index_to_row(Val(check_idx)) <= row /\ row < index_to_row(Val(check_idx)) + 2
            /\ index_to_col(Val(check_idx)) <= col /\ col < index_to_col(Val(check_idx)) + 2
         THEN check_idx
         ELSE FindTreeFrom(tl, row, col, k + 1)

_find_tree_at_tile(tl, row, col) ==
    LET idx == row_col_to_index(row, col)
    IN IF IsSome(idx) /\ IsMainTree(tl[Val(idx)]) THEN idx
       ELSE FindTreeFrom(tl, row, col, 1)

\* "for t_idx, t in enumerate(tiles): if ... t.get('id') == main_id and not
\* t.get('is_reference'): tile = t; break": the first main record with the id.
MainIndices(tl, main_id) ==
    {i \in Indices : tl[i] # None /\ tl[i].id = main_id /\ ~tl[i].is_reference}

Min(S) == CHOOSE x \in S : \A y \in S : x <= y

\* water_tile that debits the cost without comparing it with the water held.
water_tile_NoSufficiencyCheck(inv, tl, row, col, t) ==
    LET fail == Outcome(FALSE, FALSE, inv, tl, {})
        idx == row_col_to_index(row, col)
    IN IF ~IsSome(idx) THEN fail
       ELSE IF tl[Val(idx)] = None THEN fail
       ELSE
         LET clicked == tl[Val(idx)]
             \* a reference resolves to the main record with its id, when there is one
             at == IF clicked.is_reference /\ MainIndices(tl, clicked.id) # {}
                   THEN Min(MainIndices(tl, clicked.id)) ELSE Val(idx)
             tile == tl[at]
             kind == tile.kind
             water_cost == IF kind \in TwoByTwoKinds THEN 4 ELSE 1
             tree_idx == _find_tree_at_tile(tl, row, col)
         IN IF tile_status(tile, t).is_dead THEN fail
            ELSE IF kind \in TwoByTwoKinds /\ ~IsSome(tree_idx) THEN fail
            ELSE IF FALSE THEN fail
            ELSE
              LET target == IF kind \in TwoByTwoKinds THEN Val(tree_idx) ELSE at
              IN Outcome(TRUE, TRUE, [inv EXCEPT !["water"] = @ - water_cost],
                         [tl EXCEPT ![target].last_watered_at = Some(t)],
                         {tl[target].id})

\* water_tile that charges 1 water whatever the kind.
water_tile_FlatCost(inv, tl, row, col, t) ==
    LET fail == Outcome(FALSE, FALSE, inv, tl, {})
        idx == row_col_to_index(row, col)
    IN IF ~IsSome(idx) THEN fail
       ELSE IF tl[Val(idx)] = None THEN fail
       ELSE
         LET clicked == tl[Val(idx)]
             \* a reference resolves to the main record with its id, when there is one
             at == IF clicked.is_reference /\ MainIndices(tl, clicked.id) # {}
                   THEN Min(MainIndices(tl, clicked.id)) ELSE Val(idx)
             tile == tl[at]
             kind == tile.kind
             water_cost == 1
             tree_idx == _find_tree_at_tile(tl, row, col)
         IN IF tile_status(tile, t).is_dead THEN fail
            ELSE IF kind \in TwoByTwoKinds /\ ~IsSome(tree_idx) THEN fail
            ELSE IF inv["water"] < water_cost THEN fail
            ELSE
              LET target == IF kind \in TwoByTwoKinds THEN Val(tree_idx) ELSE at
              IN Outcome(TRUE, TRUE, [inv EXCEPT !["water"] = @ - water_cost],
                         [tl EXCEPT ![target].last_watered_at = Some(t)],
                         {tl[target].id})

water_tile(inv, tl, row, col, t) ==
    LET fail == Outcome(FALSE, FALSE, inv, tl, {})
        idx == row_col_to_index(row, col)
    IN IF ~IsSome(idx) THEN fail
       ELSE IF tl[Val(idx)] = None THEN fail
       ELSE
         LET clicked == tl[Val(idx)]
             \* a reference resolves to the main record with its id, when there is one
             at == IF clicked.is_reference /\ MainIndices(tl, clicked.id) # {}
                   THEN Min(MainIndices(tl, clicked.id)) ELSE Val(idx)
             tile == tl[at]
             kind == tile.kind
             water_cost == IF kind \in TwoByTwoKinds THEN 4 ELSE 1
             tree_idx == _find_tree_at_tile(tl, row, col)
         IN IF tile_status(tile, t).is_dead THEN fail
            ELSE IF kind \in TwoByTwoKinds /\ ~IsSome(tree_idx) THEN fail
            ELSE IF inv["water"] < water_cost THEN fail
            ELSE
              LET target == IF kind \in TwoByTwoKinds THEN Val(tree_idx) ELSE at
              IN Outcome(TRUE, TRUE, [inv EXCEPT !["water"] = @ - water_cost],
                         [tl EXCEPT ![target].last_watered_at = Some(t)],
                         {tl[target].id})

\* ------------------------------------------------------------------------
\* Evolution
\* ------------------------------------------------------------------------
\* _evolve_tile_if_needed(tile, idx) with tile = tiles[idx]; color is the
\* value random.choice returns when the seed branch is taken.
\* _evolve_tile_if_needed without the check of the time since the last watering.
_evolve_tile_if_needed_Starved(tl, idx, t, color) ==
    LET tile == tl[idx]
        kind == tile.kind
        evolution_stage == IF tile.evolution_stage = "none" /\ kind = "seed"
                           THEN "seed" ELSE tile.evolution_stage
        row == index_to_row(idx)
        col == index_to_col(idx)
        stay == [ok |-> FALSE, tiles |-> tl]
    IN IF ~IsSome(tile.planted_at) \/ ~IsSome(tile.last_watered_at) THEN stay
       ELSE IF FALSE THEN stay
       ELSE IF kind = "seed" /\ evolution_stage = "seed" /\ t - Val(tile.planted_at) >= 7
       THEN [ok |-> TRUE,
             tiles |-> [tl EXCEPT ![idx] =
                          [tile EXCEPT !.kind = "colorful_plant",
                                       !.evolution_stage = "colorful_plant",
                                       !.color = color,
                                       !.planted_at = Some(t)]]]
       ELSE IF kind = "colorful_plant" /\ evolution_stage = "colorful_plant"
               /\ t - Val(tile.planted_at) >= 7
       THEN IF tile.color = "none" THEN stay
            ELSE IF row < 0 \/ col < 0 \/ row >= GARDEN_HEIGHT - 1 \/ col >= GARDEN_WIDTH - 1
            THEN stay
            ELSE IF \E c \in BlockCells(row, col) : c # idx /\ tl[c] # None THEN stay
            ELSE
              LET main == [tile EXCEPT !.kind = "cherry_blossom",
                                       !.evolution_stage = "cherry_blossom",
                                       !.planted_at = Some(t)]
              IN [ok |-> TRUE,
                  tiles |-> [i \in Indices |->
                               IF i = idx THEN main
                               ELSE IF i \in BlockCells(row, col)
                               THEN ReferenceTile(main, "cherry_blossom",
                                                  index_to_row(i), index_to_col(i))
                               ELSE tl[i]]]
       ELSE stay

\* _evolve_tile_if_needed that leaves planted_at of an evolved seed as it was.
_evolve_tile_if_needed_KeepAge(tl, idx, t, color) ==
    LET tile == tl[idx]
        kind == tile.kind
        evolution_stage == IF tile.evolution_stage = "none" /\ kind = "seed"
                           THEN "seed" ELSE tile.evolution_stage
        row == index_to_row(idx)
        col == index_to_col(idx)
        stay == [ok |-> FALSE, tiles |-> tl]
    IN IF ~IsSome(tile.planted_at) \/ ~IsSome(tile.last_watered_at) THEN stay
       ELSE IF t - Val(tile.last_watered_at) > 2 THEN stay
       ELSE IF kind = "seed" /\ evolution_stage = "seed" /\ t - Val(tile.planted_at) >= 7
       THEN [ok |-> TRUE,
             tiles |-> [tl EXCEPT ![idx] =
                          [tile EXCEPT !.kind = "colorful_plant",
                                       !.evolution_stage = "colorful_plant",
                                       !.color = color]]]
       ELSE IF kind = "colorful_plant" /\ evolution_stage = "colorful_plant"
               /\ t - Val(tile.planted_at) >= 7
       THEN IF tile.color = "none" THEN stay
            ELSE IF row < 0 \/ col < 0 \/ row >= GARDEN_HEIGHT - 1 \/ col >= GARDEN_WIDTH - 1
            THEN stay
            ELSE IF \E c \in BlockCells(row, col) : c # idx /\ tl[c] # None THEN stay
            ELSE
              LET main == [tile EXCEPT !.kind = "cherry_blossom",
                                       !.evolution_stage = "cherry_blossom",
                                       !.planted_at = Some(t)]
              IN [ok |-> TRUE,
                  tiles |-> [i \in Indices |->
                               IF i = idx THEN main
                               ELSE IF i \in BlockCells(row, col)
                               THEN ReferenceTile(main, "cherry_blossom",
                                                  index_to_row(i), index_to_col(i))
                               ELSE tl[i]]]
       ELSE stay

\* _evolve_tile_if_needed that draws a color again for the cherry blossom.
_evolve_tile_if_needed_NewColor(tl, idx, t, color) ==
    LET tile == tl[idx]
        kind == tile.kind
        evolution_stage == IF tile.evolution_stage = "none" /\ kind = "seed"
                           THEN "seed" ELSE tile.evolution_stage
        row == index_to_row(idx)
        col == index_to_col(idx)
        stay == [ok |-> FALSE, tiles |-> tl]
    IN IF ~IsSome(tile.planted_at) \/ ~IsSome(tile.last_watered_at) THEN stay
       ELSE IF t - Val(tile.last_watered_at) > 2 THEN stay
       ELSE IF kind = "seed" /\ evolution_stage = "seed" /\ t - Val(tile.planted_at) >= 7
       THEN [ok |-> TRUE,
             tiles |-> [tl EXCEPT ![idx] =
                          [tile EXCEPT !.kind = "colorful_plant",
                                       !.evolution_stage = "colorful_plant",
                                       !.color = color,
                                       !.planted_at = Some(t)]]]
       ELSE IF kind = "colorful_plant" /\ evolution_stage = "colorful_plant"
               /\ t - Val(tile.planted_at) >= 7
       THEN IF tile.color = "none" THEN stay
            ELSE IF row < 0 \/ col < 0 \/ row >= GARDEN_HEIGHT - 1 \/ col >= GARDEN_WIDTH - 1
            THEN stay
            ELSE IF \E c \in BlockCells(row, col) : c # idx /\ tl[c] # None THEN stay
            ELSE
              LET main == [tile EXCEPT !.kind = "cherry_blossom",
                                       !.evolution_stage = "cherry_blossom",
                                       !.color = color,
                                       !.planted_at = Some(t)]
              IN [ok |-> TRUE,
                  tiles |-> [i \in Indices |->
                               IF i = idx THEN main
                               ELSE IF i \in BlockCells(row, col)
                               THEN ReferenceTile(main, "cherry_blossom",
                                                  index_to_row(i), index_to_col(i))
                               ELSE tl[i]]]
       ELSE stay

_evolve_tile_if_needed(tl, idx, t, color) ==
    LET tile == tl[idx]
        kind == tile.kind
        evolution_stage == IF tile.evolution_stage = "none" /\ kind = "seed"
                           THEN "seed" ELSE tile.evolution_stage
        row == index_to_row(idx)
        col == index_to_col(idx)
        stay == [ok |-> FALSE, tiles |-> tl]
    IN IF ~IsSome(tile.planted_at) \/ ~IsSome(tile.last_watered_at) THEN stay
       ELSE IF t - Val(tile.last_watered_at) > 2 THEN stay
       ELSE IF kind = "seed" /\ evolution_stage = "seed" /\ t - Val(tile.planted_at) >= 7
       THEN [ok |-> TRUE,
             tiles |-> [tl EXCEPT ![idx] =
                          [tile EXCEPT !.kind = "colorful_plant",
                                       !.evolution_stage = "colorful_plant",
                                       !.color = color,
                                       !.planted_at = Some(t)]]]
       ELSE IF kind = "colorful_plant" /\ evolution_stage = "colorful_plant"
               /\ t - Val(tile.planted_at) >= 7
       THEN IF tile.color = "none" THEN stay
            ELSE IF row < 0 \/ col < 0 \/ row >= GARDEN_HEIGHT - 1 \/ col >= GARDEN_WIDTH - 1
            THEN stay
            ELSE IF \E c \in BlockCells(row, col) : c # idx /\ tl[c] # None THEN stay
            ELSE
              LET main == [tile EXCEPT !.kind = "cherry_blossom",
                                       !.evolution_stage = "cherry_blossom",
                                       !.planted_at = Some(t)]
              IN [ok |-> TRUE,
                  tiles |-> [i \in Indices |->
                               IF i = idx THEN main
                               ELSE IF i \in BlockCells(row, col)
                               THEN ReferenceTile(main, "cherry_blossom",
                                                  index_to_row(i), index_to_col(i))
                               ELSE tl[i]]]
       ELSE stay

\* The seeds the first pass of refresh_items turns into colorful plants.
SeedsDue(tl, t) ==
    {i \in Indices :
        /\ tl[i] # None /\ ~tl[i].is_reference /\ tl[i].kind = "seed"
        /\ _evolve_tile_if_needed(tl, i, t, "red").ok}

\* The first pass of refresh_items from index idx on; colors[i] is the color
\* random.choice draws for the seed at i.
RECURSIVE EvolveFrom(_, _, _, _, _)
EvolveFrom(tl, idx, t, colors, evolved) ==
    IF idx >= NumTiles THEN [tiles |-> tl, ids |-> evolved]
    ELSE IF tl[idx] = None \/ tl[idx].is_reference
    THEN EvolveFrom(tl, idx + 1, t, colors, evolved)
    ELSE
      LET r == _evolve_tile_if_needed(tl, idx, t,
                   IF idx \in DOMAIN colors THEN colors[idx] ELSE "red")
      IN EvolveFrom(r.tiles, idx + 1, t, colors,
                    IF r.ok THEN evolved \cup {tl[idx].id} ELSE evolved)

refresh_items(inv, tl, t, colors) ==
    LET r == EvolveFrom(tl, 0, t, colors, {})
    IN Outcome(r.ids # {}, r.ids # {}, inv, r.tiles, r.ids)


\* ------------------------------------------------------------------------
\* Path overlay
\* ------------------------------------------------------------------------
\* path_key = (row, col, direction): a tuple
PathKey(row, col, direction) ==
    [row |-> row, col |-> col, direction |-> direction, is_tuple |-> TRUE]

\* "path_key in paths": list membership by ==; a tuple never equals a list.
PathIn(key, ps) == \E i \in 1 .. Len(ps) : ps[i] = key

\* paths.remove(path_key): drops the first element equal to the key.
RemoveFirst(ps, key) ==
    LET i == Min({j \in 1 .. Len(ps) : ps[j] = key})
    IN SubSeq(ps, 1, i - 1) \o SubSeq(ps, i + 1, Len(ps))

PathOutcome(ok, saved, inv, ps) ==
    [ok |-> ok, saved |-> saved, inventory |-> inv, paths |-> ps]

place_path(inv, ps, row, col, direction) ==
    IF direction \notin {"n", "s", "e", "w"} THEN PathOutcome(FALSE, FALSE, inv, ps)
    ELSE IF row < 0 \/ row >= GARDEN_HEIGHT \/ col < 0 \/ col >= GARDEN_WIDTH
    THEN PathOutcome(FALSE, FALSE, inv, ps)
    ELSE IF PathIn(PathKey(row, col, direction), ps) THEN PathOutcome(FALSE, FALSE, inv, ps)
    ELSE IF inv["path"] < 1 THEN PathOutcome(FALSE, FALSE, inv, ps)
    ELSE PathOutcome(TRUE, TRUE, [inv EXCEPT !["path"] = @ - 1],
                     Append(ps, PathKey(row, col, direction)))

\* remove_path that deletes the edge and keeps the token.
remove_path_NoCredit(inv, ps, row, col, direction) ==
    IF PathIn(PathKey(row, col, direction), ps)
    THEN PathOutcome(TRUE, TRUE, inv, RemoveFirst(ps, PathKey(row, col, direction)))
    ELSE PathOutcome(FALSE, FALSE, inv, ps)

remove_path(inv, ps, row, col, direction) ==
    IF PathIn(PathKey(row, col, direction), ps)
    THEN PathOutcome(TRUE, TRUE, [inv EXCEPT !["path"] = @ + 1],
                     RemoveFirst(ps, PathKey(row, col, direction)))
    ELSE PathOutcome(FALSE, FALSE, inv, ps)

\* ------------------------------------------------------------------------
\* load
\* ------------------------------------------------------------------------
\* The document load() leaves in memory for the file f: a missing or
\* unparseable (cut short) file gives the fresh document.
\* "mode in unlocked"
is_theme_unlocked(themes, mode) == \E i \in 1 .. Len(themes) : themes[i] = mode

\* The theme part of _ensure_defaults; mode is the stored aesthetic_mode and
\* themes the stored unlocked_themes, Absent when the key is missing.
_ensure_defaults(mode, themes) ==
    LET listed == IF themes = Absent THEN << "default" >> ELSE Val(themes)
    IN [aesthetic_mode |-> IF mode \in AESTHETIC_MODES THEN mode ELSE "default",
        unlocked_themes |-> IF is_theme_unlocked(listed, "default")
                            THEN listed ELSE Append(listed, "default")]

\* _migrate that keeps a document of any schema version.
_migrate_AnyVersion(data) ==
    [data EXCEPT !.schema_version = Some(CURRENT_SCHEMA_VERSION)]

\* _migrate: int(data.get("schema_version", 0)) below 1 gives a fresh state.
_migrate(data) ==
    LET version == IF IsSome(data.schema_version) THEN Val(data.schema_version) ELSE 0
    IN IF version < 1 THEN initial_state
       ELSE [data EXCEPT !.schema_version = Some(CURRENT_SCHEMA_VERSION)]

\* The garden part of _ensure_defaults with the positional copy only.
_ensure_defaults_tiles_Positional(tl, old_w, old_h) ==
    LET n == Cardinality(DOMAIN tl)
    IN IF n = NumTiles THEN tl
       ELSE [i \in Indices |-> IF i < n THEN tl[i] ELSE None]

\* The garden part of _ensure_defaults: a tiles array tl (cells 0 .. n-1) of a
\* garden stored as old_w x old_h becomes an array of NumTiles cells.
_ensure_defaults_tiles(tl, old_w, old_h) ==
    LET n == Cardinality(DOMAIN tl)
        old_expected_len == (IF old_w > 0 THEN old_w ELSE 0) * (IF old_h > 0 THEN old_h ELSE 0)
    IN IF n = NumTiles THEN tl
       ELSE IF old_expected_len = n /\ old_w > 0 /\ old_h > 0
       THEN [new_idx \in Indices |->
               LET r == index_to_row(new_idx)
                   c == index_to_col(new_idx)
               IN IF r < old_h /\ c < old_w /\ r * old_w + c < n
                  THEN tl[r * old_w + c] ELSE None]
       ELSE [i \in Indices |-> IF i < n THEN tl[i] ELSE None]

\* The document load() leaves in self.data and saves back.
load(f) ==
    IF ~f.exists THEN initial_state
    ELSE IF f.len # TextChunks THEN initial_state
    ELSE IF f.doc.root # "object" THEN initial_state
    ELSE
      LET data == _migrate(f.doc)
          themes == _ensure_defaults(data.aesthetic_mode, Some(data.unlocked_themes))
      IN [data EXCEPT !.aesthetic_mode = themes.aesthetic_mode,
                      !.unlocked_themes = themes.unlocked_themes,
                      !.width = GARDEN_WIDTH,
                      !.height = GARDEN_HEIGHT,
                      !.tiles = _ensure_defaults_tiles(data.tiles, data.width, data.height)]

\* ------------------------------------------------------------------------
\* Actions
\* ------------------------------------------------------------------------
Idle == savePc = "idle"

Ret(op, ok, ids) == [op |-> op, ok |-> ok, ids |-> ids]

\* An operation on inventory and garden returns with outcome r.
Commit(op, r) ==
    /\ Idle
    /\ inventory' = r.inventory
    /\ tiles' = r.tiles
    /\ disk' = IF r.saved
               THEN Saved(r.inventory, r.tiles, paths, aesthetic_mode, unlocked_themes)
               ELSE disk
    /\ ret' = Ret(op, r.ok, r.ids)
    /\ UNCHANGED <<now, paths, aesthetic_mode, unlocked_themes, tmp, savePc, saveOld,
                   current_streak, awarded_multiples>>

\* An operation on inventory and paths returns with outcome r.
CommitPath(op, r) ==
    /\ Idle
    /\ inventory' = r.inventory
    /\ paths' = r.paths
    /\ disk' = IF r.saved
               THEN Saved(r.inventory, tiles, r.paths, aesthetic_mode, unlocked_themes)
               ELSE disk
    /\ ret' = Ret(op, r.ok, {})
    /\ UNCHANGED <<now, tiles, aesthetic_mode, unlocked_themes, nextId, tmp, savePc,
                   saveOld, current_streak, awarded_multiples>>

PlaceKinds == {"plant", "tree", "seed", "colorful_plant"}
IndexInputs == -1 .. NumTiles
RowInputs == -1 .. GARDEN_HEIGHT
ColInputs == -1 .. GARDEN_WIDTH
DirectionInputs == {"n", "s", "e", "w", "x"}

PlaceAtIndex(kind, idx) ==
    /\ nextId <= MaxIds
    /\ LET r == place_at_index(inventory, tiles, kind, idx, nextId, now)
       IN /\ Commit("place_at_index", r)
          /\ nextId' = IF r.ok THEN nextId + 1 ELSE nextId

MoveTile(from_idx, to_idx) ==
    /\ Commit("move_tile", move_tile(inventory, tiles, from_idx, to_idx))
    /\ UNCHANGED nextId

WaterTile(row, col) ==
    /\ Commit("water_tile", water_tile(inventory, tiles, row, col, now))
    /\ UNCHANGED nextId

WaterAll ==
    /\ Commit("water_all", water_all(inventory, tiles, now))
    /\ UNCHANGED nextId

ApplySunlight ==
    /\ Commit("apply_sunlight", apply_sunlight(inventory, tiles, now))
    /\ UNCHANGED nextId

FastForwardTime(days) ==
    /\ Commit("fast_forward_time", fast_forward_time(inventory, tiles, days))
    /\ UNCHANGED nextId

ClearDead ==
    /\ Commit("clear_dead", clear_dead(inventory, tiles, now))
    /\ UNCHANGED nextId

RemoveObjectAtIndex(idx) ==
    /\ Commit("remove_object_at_index", remove_object_at_index(inventory, tiles, idx))
    /\ UNCHANGED nextId

\* Several days pass at once.
TickDays(days) ==
    /\ Idle
    /\ now + days <= MaxNow
    /\ HasLiving(tiles, now)
    /\ now' = now + days
    /\ ret' = Ret("tick", TRUE, {})
    /\ UNCHANGED <<inventory, tiles, paths, aesthetic_mode, unlocked_themes, nextId,
                   disk, tmp, savePc, saveOld, current_streak, awarded_multiples>>

\* refresh_items; random.choice draws from palette.
RefreshItems(palette) ==
    \E colors \in [SeedsDue(tiles, now) -> palette] :
        /\ Commit("refresh_items", refresh_items(inventory, tiles, now, colors))
        /\ UNCHANGED nextId

PlacePath(row, col, direction) ==
    /\ Len(paths) < MaxPaths
    /\ CommitPath("place_path", place_path(inventory, paths, row, col, direction))

RemovePath(row, col, direction) ==
    /\ Idle
    /\ CommitPath("remove_path", remove_path(inventory, paths, row, col, direction))

\* A day passes.  The clock is followed while something in the garden lives.
Tick ==
    /\ Idle
    /\ now < MaxNow
    /\ HasLiving(tiles, now)
    /\ now' = now + 1
    /\ ret' = Ret("tick", TRUE, {})
    /\ UNCHANGED <<inventory, tiles, paths, aesthetic_mode, unlocked_themes, nextId,
                   disk, tmp, savePc, saveOld, current_streak, awarded_multiples>>

\* The add-on starts again: a new AddonState, then load().
Load ==
    /\ Idle
    /\ LET d == load(disk)
       IN /\ inventory' = d.inventory
          /\ tiles' = d.tiles
          /\ paths' = d.paths
          /\ aesthetic_mode' = d.aesthetic_mode
          /\ unlocked_themes' = d.unlocked_themes
          /\ disk' = FileOf(d, TextChunks)
    /\ ret' = Ret("load", TRUE, {})
    /\ current_streak' = 0
    /\ awarded_multiples' = {}
    /\ UNCHANGED <<now, nextId, tmp, savePc, saveOld>>

\* ------------------------------------------------------------------------
\* The garden: a seed grows into a cherry blossom beside a tree.
\* The session starts from a stored document with an empty garden and an
\* inventory earned earlier (streak rewards and purchases).
\* ------------------------------------------------------------------------
GardenInventory ==
    [default_inventory EXCEPT !["water"] = 10, !["trees"] = 1, !["seeds"] = 1]

InitWith(inv) ==
    /\ now = 0
    /\ inventory = inv
    /\ tiles = default_garden
    /\ paths = << >>
    /\ aesthetic_mode = "default"
    /\ unlocked_themes = << "default" >>
    /\ nextId = 1
    /\ disk = Saved(inv, default_garden, << >>, "default", << "default" >>)
    /\ tmp = NoFile
    /\ savePc = "idle"
    /\ saveOld = disk
    /\ ret = Ret("load", TRUE, {})
    /\ current_streak = 0
    /\ awarded_multiples = {}

Init == InitWith(GardenInventory)

Cell(row, col) == row * GARDEN_WIDTH + col

\* The cells the user acts on.
SeedCells == {Cell(0, 1)}
TreeCells == {Cell(1, 0)}
MoveCells == {Cell(0, 0), Cell(0, 1)}
WaterCells == {<<0, 1>>, <<1, 1>>}
\* The colors random.choice is seen to draw.
PaletteInputs == {c \in COLORFUL_PLANT_COLORS : c = "red"}

Next ==
    \/ \E idx \in SeedCells : PlaceAtIndex("seed", idx)
    \/ \E idx \in TreeCells : PlaceAtIndex("tree", idx)
    \/ \E from_idx \in MoveCells, to_idx \in MoveCells : MoveTile(from_idx, to_idx)
    \/ \E rc \in WaterCells : WaterTile(rc[1], rc[2])
    \/ ClearDead
    \/ RefreshItems(PaletteInputs)
    \/ Tick
    \/ Load

Spec == Init /\ [][Next]_vars


\* ------------------------------------------------------------------------
\* Properties of the garden
\* ------------------------------------------------------------------------
IdCells(tl, id) == {i \in Indices : tl[i] # None /\ tl[i].id = id}

IsAnchor(i) ==
    index_to_row(i) <= GARDEN_HEIGHT - 2 /\ index_to_col(i) <= GARDEN_WIDTH - 2

BlockOf(i) == BlockCells(index_to_row(i), index_to_col(i))

\* The cells the tile whose main record is at i covers.
Footprint(tl, i) ==
    IF tl[i].kind \in TwoByTwoKinds /\ IsAnchor(i) THEN BlockOf(i) ELSE {i}

IsMain(tl, i) == tl[i] # None /\ ~tl[i].is_reference

\* One main record at the anchor, three references on the rest of its block,
\* the id nowhere else.
TwoByTwoConsistent(tl, id) ==
    \E a \in Indices :
        /\ IsAnchor(a)
        /\ IsMain(tl, a) /\ tl[a].id = id
        /\ IdCells(tl, id) = BlockOf(a)
        /\ \A c \in BlockOf(a) \ {a} : tl[c].is_reference

\* The record a cell's record resolves to: the main record with its id.
Resolved(tl, i) ==
    IF tl[i].is_reference /\ MainIndices(tl, tl[i].id) # {}
    THEN tl[Min(MainIndices(tl, tl[i].id))] ELSE tl[i]

\* C1: after every successful move_tile or evolution that involves a tree or
\* cherry_blossom, exactly the four cells of the 2x2 block anchored at the
\* main record carry the tile's id: the main record and three references.
C1_TwoByTwoAfterMoveOrEvolution ==
    (ret.ok /\ ret.op \in {"move_tile", "refresh_items"}) =>
        \A id \in ret.ids :
            (\E i \in IdCells(tiles, id) : tiles[i].kind \in TwoByTwoKinds)
                => TwoByTwoConsistent(tiles, id)

\* C2: the footprints of all tiles are pairwise disjoint and every cell of a
\* footprint holds a record with that tile's id.
C2_FootprintsDisjointAndOccupied ==
    \A i \in Indices : IsMain(tiles, i) =>
        /\ \A c \in Footprint(tiles, i) : tiles[c] # None /\ tiles[c].id = tiles[i].id
        /\ \A j \in Indices :
              (IsMain(tiles, j) /\ j # i)
                  => Footprint(tiles, i) \cap Footprint(tiles, j) = {}

\* C3: water_tile on any of the four cells of a non-dead tree or cherry
\* blossom, with water >= 4, succeeds, debits exactly 4 water and sets
\* last_watered_at = now on that tile's main record and on nothing else.
C3_WaterAnyCellOfTwoByTwo ==
    [][\A rc \in WaterCells : \A i \in Indices :
          ( /\ IsMainTree(tiles[i]) /\ IsAnchor(i)
            /\ ~tile_status(tiles[i], now).is_dead
            /\ Cell(rc[1], rc[2]) \in BlockOf(i)
            /\ inventory["water"] >= 4
            /\ WaterTile(rc[1], rc[2]) )
          => /\ ret'.ok
             /\ inventory' = [inventory EXCEPT !["water"] = @ - 4]
             /\ tiles' = [tiles EXCEPT ![i].last_watered_at = Some(now)]]_vars

\* C4: once a tile is dead no step revives it: while its main record is in
\* the grid its status stays dead and its last_watered_at stays as it was, and
\* a water_tile aimed at a cell that resolves to it fails with no debit.
C4_DeadStaysDead ==
    [][/\ \A i \in Indices :
            (IsMain(tiles, i) /\ tile_status(tiles[i], now).is_dead)
            => \A j \in Indices :
                   (IsMain(tiles', j) /\ tiles'[j].id = tiles[i].id)
                   => /\ tile_status(tiles'[j], now').is_dead
                      /\ tiles'[j].last_watered_at = tiles[i].last_watered_at
       /\ \A rc \in WaterCells :
            ( /\ tiles[Cell(rc[1], rc[2])] # None
              /\ tile_status(Resolved(tiles, Cell(rc[1], rc[2])), now).is_dead
              /\ WaterTile(rc[1], rc[2]) )
            => ~ret'.ok /\ inventory' = inventory]_vars

\* C5: clear_dead frees exactly the cells whose tile, resolved to its main
\* record, is dead; it changes no inventory count and returns True iff a
\* cell was freed.
C5_ClearDeadFreesExactlyDead ==
    [][ClearDead =>
          /\ \A i \in Indices :
                tiles[i] # None =>
                   /\ tiles'[i] \in {None, tiles[i]}
                   /\ (tiles'[i] = None) <=> tile_status(Resolved(tiles, i), now).is_dead
          /\ inventory' = inventory
          /\ ret'.ok <=> (\E i \in Indices : tiles[i] # None /\ tiles'[i] = None)]_vars

\* C6: a failed move_tile leaves the grid and the inventory as they were.
C6_FailedMoveChangesNothing ==
    [][(ret'.op = "move_tile" /\ ~ret'.ok) => (tiles' = tiles /\ inventory' = inventory)]_vars

\* C7: write-through: when an operation has returned, the state file holds
\* the in-memory document.
C7_WriteThrough ==
    disk = Saved(inventory, tiles, paths, aesthetic_mode, unlocked_themes)


\* ------------------------------------------------------------------------
\* The path overlay: place_path, remove_path and restarts.
\* ------------------------------------------------------------------------
PathInventory == [default_inventory EXCEPT !["path"] = MaxPaths]

InitPath == InitWith(PathInventory)

\* The edges the user clicks: inside the garden, outside it, and one with a
\* direction that is none.
PathRowInputs == {-1, 0, 1}
PathColInputs == {0, GARDEN_WIDTH}
PathDirectionInputs == {"n", "e", "x"}

NextPath ==
    \/ \E row \in PathRowInputs, col \in PathColInputs, direction \in PathDirectionInputs :
           PlacePath(row, col, direction)
    \/ \E row \in PathRowInputs, col \in PathColInputs, direction \in PathDirectionInputs :
           RemovePath(row, col, direction)
    \/ Load

SpecPath == InitPath /\ [][NextPath]_vars

\* The edge a list element denotes, whatever its Python type.
EdgeOf(p) == <<p.row, p.col, p.direction>>

\* C9: the path collection holds no edge twice, and an edge in the collection
\* is treated as present: place_path on it fails with no debit, remove_path
\* on it removes the edge and credits 1 path.
C9_EdgesUniqueAndPresent ==
    /\ \A i, j \in 1 .. Len(paths) : EdgeOf(paths[i]) = EdgeOf(paths[j]) => i = j
    /\ \A i \in 1 .. Len(paths) :
          LET e == paths[i]
              placed == place_path(inventory, paths, e.row, e.col, e.direction)
              removed == remove_path(inventory, paths, e.row, e.col, e.direction)
          IN /\ ~placed.ok /\ placed.inventory = inventory /\ placed.paths = paths
             /\ removed.ok
             /\ removed.inventory = [inventory EXCEPT !["path"] = @ + 1]
             /\ Len(removed.paths) = Len(paths) - 1
             /\ \A k \in 1 .. Len(removed.paths) : EdgeOf(removed.paths[k]) # EdgeOf(e)

\* C10: a successful place_path debits exactly 1 path and appends exactly
\* one edge, a successful remove_path deletes exactly one edge and credits
\* exactly 1 path, so path inventory + number of edges is unchanged by every
\* place_path and remove_path call; and remove_path of the edge just placed
\* restores the path list and the inventory.
C10_PathConservation ==
    [][/\ (ret'.op = "place_path" /\ ret'.ok)
            => /\ inventory' = [inventory EXCEPT !["path"] = @ - 1]
               /\ Len(paths') = Len(paths) + 1
               /\ SubSeq(paths', 1, Len(paths)) = paths
               /\ LET e == paths'[Len(paths')]
                      back == remove_path(inventory', paths', e.row, e.col, e.direction)
                  IN back.ok /\ back.inventory = inventory /\ back.paths = paths
       /\ (ret'.op = "remove_path" /\ ret'.ok)
            => /\ inventory' = [inventory EXCEPT !["path"] = @ + 1]
               /\ Len(paths') = Len(paths) - 1
       /\ (ret'.op \in {"place_path", "remove_path"})
            => inventory'["path"] + Len(paths') = inventory["path"] + Len(paths)]_vars

\* A remove_path has succeeded and left an edge behind: edges were placed
\* and one of them was taken back.
C10_Witness ==
    /\ ret.op = "remove_path" /\ ret.ok
    /\ Len(paths) >= 1
    /\ inventory["path"] + Len(paths) = MaxPaths


\* ------------------------------------------------------------------------
\* Persistence step by step: _save -> _safe_write, with crashes.
\* text is the serialized document, target the state file, temp the file
\* next to it.  One call of the operator is one step of _safe_write:
\*   "open"    open(tmp, "w") creates or truncates the temporary file
\*   "write"   f.write(text): the text reaches the file chunk by chunk
\*   "flush"   f.flush()
\*   "fsync"   os.fsync(f.fileno()), then the file is closed
\*   "replace" os.replace(tmp, target)
\* ------------------------------------------------------------------------
\* _safe_write that opens the state file itself for writing.
_safe_write_InPlace(pc, text, target, temp) ==
    CASE pc = "open" ->
           [pc |-> "write", target |-> FileOf(text, 0), temp |-> temp]
      [] pc = "write" ->
           IF target.len < TextChunks
           THEN [pc |-> "write", target |-> FileOf(text, target.len + 1), temp |-> temp]
           ELSE [pc |-> "flush", target |-> target, temp |-> temp]
      [] pc = "flush" -> [pc |-> "fsync", target |-> target, temp |-> temp]
      [] pc = "fsync" -> [pc |-> "replace", target |-> target, temp |-> temp]
      [] OTHER -> [pc |-> "idle", target |-> target, temp |-> temp]

_safe_write(pc, text, target, temp) ==
    CASE pc = "open" ->
           [pc |-> "write", target |-> target, temp |-> FileOf(text, 0)]
      [] pc = "write" ->
           IF temp.len < TextChunks
           THEN [pc |-> "write", target |-> target, temp |-> FileOf(text, temp.len + 1)]
           ELSE [pc |-> "flush", target |-> target, temp |-> temp]
      [] pc = "flush" -> [pc |-> "fsync", target |-> target, temp |-> temp]
      [] pc = "fsync" -> [pc |-> "replace", target |-> target, temp |-> temp]
      [] OTHER -> [pc |-> "idle", target |-> temp, temp |-> NoFile]

\* json.dumps of the data in memory.
_save == Serialize(inventory, tiles, paths, aesthetic_mode, unlocked_themes)

award_token(inv, key, amount) ==
    IF key \notin INVENTORY_KEYS THEN inv ELSE [inv EXCEPT ![key] = @ + amount]

\* award_token up to its call of _save (an unknown key returns at once); ret
\* names the running operation.
AwardToken(key) ==
    /\ Idle
    /\ key \in INVENTORY_KEYS => inventory[key] < initial_state.inventory[key] + MaxAwards
    /\ inventory' = award_token(inventory, key, 1)
    /\ savePc' = IF key \in INVENTORY_KEYS THEN "open" ELSE "idle"
    /\ saveOld' = disk
    /\ ret' = Ret("award_token", key \in INVENTORY_KEYS, {})
    /\ UNCHANGED <<now, tiles, paths, aesthetic_mode, unlocked_themes, nextId, disk, tmp,
                   current_streak, awarded_multiples>>

\* One step of the save in progress.
SafeWriteStep ==
    /\ ~Idle
    /\ LET r == _safe_write(savePc, _save, disk, tmp)
       IN /\ savePc' = r.pc
          /\ disk' = r.target
          /\ tmp' = r.temp
    /\ UNCHANGED <<now, inventory, tiles, paths, aesthetic_mode, unlocked_themes, nextId,
                   saveOld, ret, current_streak, awarded_multiples>>

\* The process dies, at any point, and is started again: a new AddonState
\* and a new StreakTracker are constructed and load() runs up to its call of
\* _save.  The files stay as
\* the crash left them.
CrashAndLoad ==
    /\ LET d == load(disk)
       IN /\ inventory' = d.inventory
          /\ tiles' = d.tiles
          /\ paths' = d.paths
          /\ aesthetic_mode' = d.aesthetic_mode
          /\ unlocked_themes' = d.unlocked_themes
    /\ savePc' = "open"
    /\ saveOld' = disk
    /\ ret' = Ret("load", ~Idle, {})
    /\ current_streak' = 0
    /\ awarded_multiples' = {}
    /\ UNCHANGED <<now, nextId, disk, tmp>>

\* First start: no state file yet, load() has reached its call of _save.
InitSave ==
    /\ now = 0
    /\ inventory = initial_state.inventory
    /\ tiles = initial_state.tiles
    /\ paths = initial_state.paths
    /\ aesthetic_mode = initial_state.aesthetic_mode
    /\ unlocked_themes = initial_state.unlocked_themes
    /\ nextId = 1
    /\ disk = NoFile
    /\ tmp = NoFile
    /\ savePc = "open"
    /\ saveOld = NoFile
    /\ ret = Ret("load", FALSE, {})
    /\ current_streak = 0
    /\ awarded_multiples = {}

AwardKeys == {"coins", "water", "bogus"}

NextSave ==
    \/ \E key \in AwardKeys : AwardToken(key)
    \/ SafeWriteStep
    \/ CrashAndLoad

SpecSave == InitSave /\ [][NextSave]_vars

\* C8: whatever step of a save a crash interrupts, the state file holds the
\* complete document it held when the save began or the complete document
\* being saved, never a truncated or partly written one.
C8_CrashSafeStateFile ==
    /\ disk.exists => disk.len = TextChunks
    /\ disk = saveOld \/ disk = FileOf(_save, TextChunks)
    /\ Idle => disk = FileOf(_save, TextChunks)

\* The process crashed while the temporary file was partly written, after an
\* earlier save had completed, and has been started again: the state file
\* still holds the earlier document, which is what load() read.
C8_Witness ==
    /\ ret = Ret("load", TRUE, {})
    /\ savePc = "open"
    /\ tmp.exists /\ tmp.len > 0 /\ tmp.len < TextChunks
    /\ tmp.doc # disk.doc
    /\ IsComplete(disk)
    /\ disk.doc # initial_state
    /\ _save = disk.doc


\* ------------------------------------------------------------------------
\* Failure cases of the path operations.
\* ------------------------------------------------------------------------
\* The edge (row, col, direction) is in the path collection.
EdgePresent(ps, row, col, direction) ==
    \E i \in 1 .. Len(ps) : EdgeOf(ps[i]) = <<row, col, direction>>

\* C11: remove_path on an absent edge fails and leaves the path list and
\* the inventory unchanged; place_path on an edge already present, with an
\* invalid direction, with a position out of bounds or with no path token
\* fails and leaves the path list and the inventory unchanged.
C11_PathFailuresChangeNothing ==
    \A row \in PathRowInputs, col \in PathColInputs, direction \in PathDirectionInputs :
        LET placed == place_path(inventory, paths, row, col, direction)
            removed == remove_path(inventory, paths, row, col, direction)
        IN /\ ~EdgePresent(paths, row, col, direction)
                => ~removed.ok /\ removed.paths = paths /\ removed.inventory = inventory
           /\ (\/ EdgePresent(paths, row, col, direction)
               \/ direction \notin {"n", "s", "e", "w"}
               \/ row < 0 \/ row >= GARDEN_HEIGHT \/ col < 0 \/ col >= GARDEN_WIDTH
               \/ inventory["path"] = 0)
                => ~placed.ok /\ placed.paths = paths /\ placed.inventory = inventory


\* ------------------------------------------------------------------------
\* Tokens, the shop, themes and the review streak.
\* ------------------------------------------------------------------------
SHOP_PRICES ==
    [water |-> 20, plants |-> 50, trees |-> 100, sunlight |-> 200, seeds |-> 1000,
     path |-> 20]

THEME_UNLOCK_PRICE == 2000

\* The message is its wording and the item or mode named in it.
TokenOutcome(ok, saved, inv, themes, wording, subject) ==
    [ok |-> ok, saved |-> saved, inventory |-> inv, unlocked_themes |-> themes,
     message |-> <<wording, subject>>]

spend_token(inv, key, amount) ==
    IF key \notin INVENTORY_KEYS THEN [ok |-> FALSE, inventory |-> inv]
    ELSE IF inv[key] < amount THEN [ok |-> FALSE, inventory |-> inv]
    ELSE [ok |-> TRUE, inventory |-> [inv EXCEPT ![key] = @ - amount]]

\* purchase_with_coins that sells without looking at the coins held.
purchase_with_coins_OnCredit(inv, themes, item) ==
    IF item \notin DOMAIN SHOP_PRICES
    THEN TokenOutcome(FALSE, FALSE, inv, themes, "Cannot purchase", item)
    ELSE TokenOutcome(TRUE, TRUE,
                      [[inv EXCEPT !["coins"] = @ - SHOP_PRICES[item]]
                          EXCEPT ![item] = @ + 1],
                      themes, "Purchased 1", item)

purchase_with_coins(inv, themes, item) ==
    IF item \notin DOMAIN SHOP_PRICES
    THEN TokenOutcome(FALSE, FALSE, inv, themes, "Cannot purchase", item)
    ELSE IF inv["coins"] < SHOP_PRICES[item]
    THEN TokenOutcome(FALSE, FALSE, inv, themes, "Not enough coins", item)
    ELSE TokenOutcome(TRUE, TRUE,
                      [[inv EXCEPT !["coins"] = @ - SHOP_PRICES[item]]
                          EXCEPT ![item] = @ + 1],
                      themes, "Purchased 1", item)

\* unlock_theme that sells a theme that is unlocked already.
unlock_theme_SoldTwice(inv, themes, mode) ==
    IF mode \notin AESTHETIC_MODES
    THEN TokenOutcome(FALSE, FALSE, inv, themes, "Invalid theme", mode)
    ELSE IF mode = "default"
    THEN TokenOutcome(FALSE, FALSE, inv, themes, "theme is already unlocked", "default")
    ELSE IF inv["coins"] < THEME_UNLOCK_PRICE
    THEN TokenOutcome(FALSE, FALSE, inv, themes, "Not enough coins", mode)
    ELSE TokenOutcome(TRUE, TRUE, [inv EXCEPT !["coins"] = @ - THEME_UNLOCK_PRICE],
                      Append(themes, mode), "Unlocked", mode)

unlock_theme(inv, themes, mode) ==
    IF mode \notin AESTHETIC_MODES
    THEN TokenOutcome(FALSE, FALSE, inv, themes, "Invalid theme", mode)
    ELSE IF mode = "default"
    THEN TokenOutcome(FALSE, FALSE, inv, themes, "theme is already unlocked", "default")
    ELSE IF is_theme_unlocked(themes, mode)
    THEN TokenOutcome(FALSE, FALSE, inv, themes, "theme is already unlocked", mode)
    ELSE IF inv["coins"] < THEME_UNLOCK_PRICE
    THEN TokenOutcome(FALSE, FALSE, inv, themes, "Not enough coins", mode)
    ELSE TokenOutcome(TRUE, TRUE, [inv EXCEPT !["coins"] = @ - THEME_UNLOCK_PRICE],
                      Append(themes, mode), "Unlocked", mode)

\* set_aesthetic_mode: the mode afterwards and whether it was set and saved.
set_aesthetic_mode(current, themes, mode) ==
    IF mode \in AESTHETIC_MODES /\ is_theme_unlocked(themes, mode)
    THEN [ok |-> TRUE, aesthetic_mode |-> mode]
    ELSE [ok |-> FALSE, aesthetic_mode |-> current]

\* _maybe_award_for_streak that rewards every multiple of a threshold.
_maybe_award_for_streak_Multiples(streak, awarded) ==
    LET hit(t) == streak % t = 0 /\ <<t, streak \div t>> \notin awarded
    IN [keys |-> (IF hit(15) THEN {"water"} ELSE {})
                     \cup (IF hit(30) THEN {"plants"} ELSE {})
                     \cup (IF hit(50) THEN {"trees"} ELSE {}),
        awarded_multiples |-> awarded \cup {<<t, 1>> : t \in {u \in {15, 30, 50} : hit(u)}}]

\* _maybe_award_for_streak that rewards without recording the key.
_maybe_award_for_streak_Unrecorded(streak, awarded) ==
    LET hit(t) == streak = t /\ <<t, 1>> \notin awarded
    IN [keys |-> (IF hit(15) THEN {"water"} ELSE {})
                     \cup (IF hit(30) THEN {"plants"} ELSE {})
                     \cup (IF hit(50) THEN {"trees"} ELSE {}),
        awarded_multiples |-> awarded]

\* StreakTracker._maybe_award_for_streak: the keys awarded at this streak
\* and the awarded set afterwards.
_maybe_award_for_streak(streak, awarded) ==
    LET hit(t) == streak = t /\ <<t, 1>> \notin awarded
    IN [keys |-> (IF hit(15) THEN {"water"} ELSE {})
                     \cup (IF hit(30) THEN {"plants"} ELSE {})
                     \cup (IF hit(50) THEN {"trees"} ELSE {}),
        awarded_multiples |-> awarded \cup {<<t, 1>> : t \in {u \in {15, 30, 50} : hit(u)}}]

\* handle_answer whose reset keeps the awarded set.
handle_answer_KeepsAwarded(inv, streak, awarded, ease) ==
    IF ease <= 1
    THEN [inventory |-> inv, current_streak |-> 0, awarded_multiples |-> awarded,
          saved |-> FALSE]
    ELSE LET m == _maybe_award_for_streak(streak + 1, awarded)
             coined == award_token(inv, "coins", 1)
         IN [inventory |-> [k \in DOMAIN coined |->
                                IF k \in m.keys THEN coined[k] + 1 ELSE coined[k]],
             current_streak |-> streak + 1,
             awarded_multiples |-> m.awarded_multiples,
             saved |-> TRUE]

\* StreakTracker.handle_answer.
handle_answer(inv, streak, awarded, ease) ==
    IF ease <= 1
    THEN [inventory |-> inv, current_streak |-> 0, awarded_multiples |-> {}, saved |-> FALSE]
    ELSE LET m == _maybe_award_for_streak(streak + 1, awarded)
             coined == award_token(inv, "coins", 1)
         IN [inventory |-> [k \in DOMAIN coined |->
                                IF k \in m.keys THEN coined[k] + 1 ELSE coined[k]],
             current_streak |-> streak + 1,
             awarded_multiples |-> m.awarded_multiples,
             saved |-> TRUE]

CommitToken(op, r) ==
    /\ Idle
    /\ inventory' = r.inventory
    /\ unlocked_themes' = r.unlocked_themes
    /\ disk' = IF r.saved
               THEN Saved(r.inventory, tiles, paths, aesthetic_mode, r.unlocked_themes)
               ELSE disk
    /\ ret' = [op |-> op, ok |-> r.ok, ids |-> {}, message |-> r.message]
    /\ UNCHANGED <<now, tiles, paths, aesthetic_mode, nextId, tmp, savePc, saveOld,
                   current_streak, awarded_multiples>>

PurchaseWithCoins(item) ==
    /\ Idle
    /\ CommitToken("purchase_with_coins", purchase_with_coins(inventory, unlocked_themes, item))

\* on_unlock_theme.
UnlockTheme(mode) ==
    /\ Idle
    /\ CommitToken("unlock_theme", unlock_theme(inventory, unlocked_themes, mode))

SetAestheticMode(mode) ==
    /\ Idle
    /\ LET r == set_aesthetic_mode(aesthetic_mode, unlocked_themes, mode)
       IN /\ aesthetic_mode' = r.aesthetic_mode
          /\ disk' = IF r.ok
                     THEN Saved(inventory, tiles, paths, r.aesthetic_mode, unlocked_themes)
                     ELSE disk
          /\ ret' = Ret("set_aesthetic_mode", r.ok, {})
    /\ UNCHANGED <<now, inventory, tiles, paths, unlocked_themes, nextId, tmp, savePc,
                   saveOld, current_streak, awarded_multiples>>

\* _on_reviewer_did_answer_card -> handle_answer; ret.ok tells a correct answer.
HandleAnswer(ease) ==
    /\ Idle
    /\ LET r == handle_answer(inventory, current_streak, awarded_multiples, ease)
       IN /\ inventory' = r.inventory
          /\ current_streak' = r.current_streak
          /\ awarded_multiples' = r.awarded_multiples
          /\ disk' = IF r.saved
                     THEN Saved(r.inventory, tiles, paths, aesthetic_mode, unlocked_themes)
                     ELSE disk
    /\ ret' = Ret("handle_answer", ease > 1, {})
    /\ UNCHANGED <<now, tiles, paths, aesthetic_mode, unlocked_themes, nextId, tmp, savePc,
                   saveOld>>


\* ------------------------------------------------------------------------
\* The whole operation surface on a small garden: every operation that
\* debits or credits a token, next to the clock.
\* ------------------------------------------------------------------------
\* Coins held at the start: one answer short of the cheapest shop item and
\* one answer short of a theme.
SurfaceCoins == {SHOP_PRICES["water"] - 1, THEME_UNLOCK_PRICE - 1}

SurfaceInventory(coins) ==
    [water |-> 5, plants |-> 1, trees |-> 1, sunlight |-> 1, coins |-> coins,
     seeds |-> 0, path |-> 1]

InitSurface == \E coins \in SurfaceCoins : InitWith(SurfaceInventory(coins))

SurfacePlantCell == Cell(0, 0)
SurfaceTreeCell == Cell(1, 1)
SurfaceItems == {"water", "sunlight", "coins"}
SurfaceModes == {"night", "default", "dusk"}

NextSurface ==
    \/ PlaceAtIndex("plant", SurfacePlantCell)
    \/ PlaceAtIndex("tree", SurfaceTreeCell)
    \/ MoveTile(SurfacePlantCell, SurfacePlantCell + 1)
    \/ MoveTile(SurfacePlantCell + 1, SurfacePlantCell)
    \/ \E idx \in {SurfacePlantCell, SurfaceTreeCell} :
           WaterTile(index_to_row(idx), index_to_col(idx))
    \/ WaterAll
    \/ ApplySunlight
    \/ ClearDead
    \/ \E idx \in {SurfacePlantCell, SurfaceTreeCell} : RemoveObjectAtIndex(idx)
    \/ PlacePath(0, 0, "n")
    \/ RemovePath(0, 0, "n")
    \/ \E item \in SurfaceItems :
           /\ inventory["coins"] < SurfacePurse
           /\ PurchaseWithCoins(item)
    \/ \E mode \in SurfaceModes : UnlockTheme(mode)
    \/ current_streak < SurfaceStreak /\ HandleAnswer(3)
    \/ now = 0 /\ TickDays(SurfaceDays)

SpecSurface == InitSurface /\ [][NextSurface]_vars

\* C12: after any sequence of operations of the operation surface every
\* inventory count is an integer >= 0.
C12_InventoryNeverNegative ==
    \A key \in INVENTORY_KEYS : inventory[key] \in Nat


\* Every count that an operation debits has been spent down to 0: the coins
\* by a purchase, the water by watering, the others by placing, sunlight and
\* a path.
C12_Witness ==
    /\ \A key \in INVENTORY_KEYS : inventory[key] = 0
    /\ Len(paths) = 1
    /\ ret.op = "water_tile" /\ ret.ok


\* ------------------------------------------------------------------------
\* Placement: every kind at every index, valid or not, with removals giving
\* the tokens back and the clock running.
\* ------------------------------------------------------------------------
PlaceInventory == [default_inventory EXCEPT !["plants"] = 1, !["trees"] = 1, !["seeds"] = 1]

InitPlace == InitWith(PlaceInventory)

NextPlace ==
    \/ \E kind \in PlaceKinds, idx \in IndexInputs : PlaceAtIndex(kind, idx)
    \/ \E idx \in IndexInputs : RemoveObjectAtIndex(idx)
    \/ now < PlaceDays /\ Tick

SpecPlace == InitPlace /\ [][NextPlace]_vars

\* Cell c is occupied: it holds a record or lies in the footprint of a tile.
Covered(tl, c) ==
    \/ tl[c] # None
    \/ \E a \in Indices : IsMain(tl, a) /\ c \in Footprint(tl, a)

\* The target of place_at_index(kind, idx) is occupied or, for a tree, does
\* not fit.
TargetOccupied(tl, kind, idx) ==
    IF kind = "tree"
    THEN \/ index_to_row(idx) > GARDEN_HEIGHT - 2
         \/ index_to_col(idx) > GARDEN_WIDTH - 2
         \/ \E c \in BlockOf(idx) : Covered(tl, c)
    ELSE Covered(tl, idx)

\* C13: place_at_index(kind, idx) fails and leaves grid and inventory
\* unchanged when kind is not plant/tree/seed, idx is out of range, the target
\* cell is occupied (for a tree: the anchor has row > H-2 or col > W-2, or
\* one of the four block cells is occupied), or the matching inventory count
\* is 0.  With plants = 1 and index 0 free: placing a plant at index 0
\* succeeds and plants becomes 0, a second placement at index 0 fails (the
\* cell is occupied) and a placement at any other index fails (no inventory).
C13_PlaceFailuresChangeNothing ==
    /\ \A kind \in PlaceKinds, idx \in IndexInputs :
          LET r == place_at_index(inventory, tiles, kind, idx, nextId, now)
          IN (\/ kind \notin {"plant", "tree", "seed"}
              \/ idx \notin Indices
              \/ TargetOccupied(tiles, kind, idx)
              \/ inventory[InventoryKeyOf(kind)] = 0)
               => ~r.ok /\ r.tiles = tiles /\ r.inventory = inventory
    /\ (inventory["plants"] = 1 /\ ~Covered(tiles, 0))
          => LET first == place_at_index(inventory, tiles, "plant", 0, nextId, now)
             IN /\ first.ok
                /\ first.inventory["plants"] = 0
                /\ first.tiles[0] # None
                /\ \A idx \in Indices :
                      LET second == place_at_index(first.inventory, first.tiles, "plant",
                                                   idx, nextId + 1, now)
                      IN ~second.ok /\ second.tiles = first.tiles
                         /\ second.inventory = first.inventory

\* The ids carried by the records of a grid.
IdsIn(tl) == {tl[i].id : i \in {j \in Indices : tl[j] # None}}

\* C14: a successful placement of kind plant/tree/seed debits exactly 1 unit
\* of plants/trees/seeds and no other count, and creates at the target index
\* a tile with a fresh id, planted_at = last_watered_at = now, no bloom and
\* row/col of the target index; every cell outside the new tile's footprint
\* is unchanged.
C14_PlaceDebitsOneAndCreatesTile ==
    [][(ret'.op = "place_at_index" /\ ret'.ok)
         => \E kind \in {"plant", "tree", "seed"}, idx \in Indices :
               /\ inventory' = [inventory EXCEPT ![InventoryKeyOf(kind)] = @ - 1]
               /\ tiles[idx] = None
               /\ tiles'[idx] # None
               /\ tiles'[idx].kind = kind
               /\ tiles'[idx].id \notin IdsIn(tiles)
               /\ ret'.ids = {tiles'[idx].id}
               /\ tiles'[idx].planted_at = Some(now)
               /\ tiles'[idx].last_watered_at = Some(now)
               /\ tiles'[idx].bloom_until = Absent
               /\ ~tiles'[idx].is_reference
               /\ row_col_to_index(tiles'[idx].row, tiles'[idx].col) = Some(idx)
               /\ \A c \in Indices \ Footprint(tiles', idx) : tiles'[c] = tiles[c]]_vars

\* A tree has been placed on a later day, next to a tile placed before.
C14_Witness ==
    /\ ret.op = "place_at_index" /\ ret.ok
    /\ now > 0
    /\ \E i \in Indices : tiles[i] # None /\ tiles[i].kind = "tree"
                          /\ tiles[i].planted_at = Some(now)
    /\ \E i \in Indices : tiles[i] # None /\ tiles[i].kind # "tree"


\* ------------------------------------------------------------------------
\* Removal: a seed that is watered and evolves, a tree and a plant, removed
\* at any index, a reference cell or an index off the grid included.
\* ------------------------------------------------------------------------
RemoveInventory ==
    [default_inventory EXCEPT !["water"] = 10, !["plants"] = 1, !["trees"] = 1, !["seeds"] = 1]

InitRemove == InitWith(RemoveInventory)

RemovePlantCells == {Cell(2, 0)}

NextRemove ==
    \/ \E idx \in SeedCells : PlaceAtIndex("seed", idx)
    \/ \E idx \in TreeCells : PlaceAtIndex("tree", idx)
    \/ \E idx \in RemovePlantCells : PlaceAtIndex("plant", idx)
    \/ \E idx \in SeedCells : WaterTile(index_to_row(idx), index_to_col(idx))
    \/ RefreshItems(PaletteInputs)
    \/ \E idx \in IndexInputs : RemoveObjectAtIndex(idx)
    \/ Tick

SpecRemove == InitRemove /\ [][NextRemove]_vars

\* C15: a successful remove_object_at_index frees every cell carrying the
\* removed tile's id and no other cell, and credits exactly 1 unit of the
\* mapped-back kind and nothing else (plant -> plants, tree -> trees, seed,
\* colorful_plant and cherry_blossom -> seeds), dead or not; a failed one
\* changes nothing; removal of a main record always succeeds, removal at an
\* empty or out-of-range index always fails.
C15_RemoveFreesAndCredits ==
    [][(ret'.op = "remove_object_at_index")
         => /\ ret'.ok =>
                 \E idx \in Indices :
                    /\ tiles[idx] # None
                    /\ ret'.ids = {tiles[idx].id}
                    /\ tiles' = [c \in Indices |->
                                   IF tiles[c] # None /\ tiles[c].id = tiles[idx].id
                                   THEN None ELSE tiles[c]]
                    /\ inventory' =
                         [inventory EXCEPT
                            ![CASE tiles[idx].kind = "plant" -> "plants"
                                [] tiles[idx].kind = "tree" -> "trees"
                                [] tiles[idx].kind \in {"seed", "colorful_plant",
                                                        "cherry_blossom"} -> "seeds"] = @ + 1]
            /\ ~ret'.ok => tiles' = tiles /\ inventory' = inventory
            /\ \A idx \in IndexInputs :
                 LET r == remove_object_at_index(inventory, tiles, idx)
                 IN /\ (idx \in Indices /\ IsMain(tiles, idx)) => r.ok
                    /\ (idx \notin Indices \/ tiles[idx] = None) => ~r.ok]_vars

\* A dead or evolved descendant of the seed has been removed after two weeks
\* and the seed token is back.
C15_Witness ==
    /\ ret.op = "remove_object_at_index" /\ ret.ok
    /\ now >= 14
    /\ inventory["seeds"] = 1
    /\ nextId > 1
    /\ \A i \in SeedCells : tiles[i] = None

\* The ids of the records of a 2x2 kind in a grid.
TwoByTwoIds(tl) ==
    {tl[i].id : i \in {j \in Indices : tl[j] # None /\ tl[j].kind \in TwoByTwoKinds}}

\* C16: a removal aimed at a reference cell of a 2x2 tile fails and leaves
\* grid and inventory unchanged; a successful removal of a 2x2 tile frees
\* all four cells of its block with one credit; and after a removal every
\* 2x2 tile left on the grid has its 4 cells.
C16_NoPartialRemoval ==
    [][(ret'.op = "remove_object_at_index")
         => /\ \A idx \in Indices :
                 (tiles[idx] # None /\ tiles[idx].is_reference)
                   => LET r == remove_object_at_index(inventory, tiles, idx)
                      IN ~r.ok /\ r.tiles = tiles /\ r.inventory = inventory
            /\ \A id \in TwoByTwoIds(tiles) \cap ret'.ids :
                 /\ \E a \in Indices : IsAnchor(a) /\ IdCells(tiles, id) = BlockOf(a)
                 /\ IdCells(tiles', id) = {}
                 /\ \E key \in {"trees", "seeds"} :
                       inventory' = [inventory EXCEPT ![key] = @ + 1]
            /\ \A id \in TwoByTwoIds(tiles') : TwoByTwoConsistent(tiles', id)]_vars


\* C17: water_tile on a non-dead plant, seed or colorful_plant with water >= 1
\* debits exactly 1 water and sets only that tile's last_watered_at to now;
\* water_tile on an empty or out-of-bounds cell, or with less water than the
\* cost (1 for single-cell kinds, 4 for 2x2 kinds), fails and leaves the
\* inventory and every tile unchanged.
C17_WaterTileSingleCell ==
    \A row \in RowInputs, col \in ColInputs :
        LET r == water_tile(inventory, tiles, row, col, now)
            unchanged == ~r.ok /\ r.inventory = inventory /\ r.tiles = tiles
            inside == row \in 0 .. GARDEN_HEIGHT - 1 /\ col \in 0 .. GARDEN_WIDTH - 1
            idx == row * GARDEN_WIDTH + col
        IN /\ ~inside => unchanged
           /\ (inside /\ tiles[idx] = None) => unchanged
           /\ (inside /\ tiles[idx] # None
                 /\ inventory["water"] < (IF tiles[idx].kind \in {"tree", "cherry_blossom"}
                                          THEN 4 ELSE 1)) => unchanged
           /\ (inside /\ tiles[idx] # None
                 /\ tiles[idx].kind \in {"plant", "seed", "colorful_plant"}
                 /\ ~tile_status(tiles[idx], now).is_dead
                 /\ inventory["water"] >= 1)
                => /\ r.ok
                   /\ r.inventory = [inventory EXCEPT !["water"] = @ - 1]
                   /\ r.tiles = [tiles EXCEPT ![idx].last_watered_at = Some(now)]

\* A colorful plant has just been watered, next to a tree that the water
\* left would not pay for.
C17_Witness ==
    /\ ret.op = "water_tile" /\ ret.ok
    /\ inventory["water"] \in 1 .. 3
    /\ \E i \in Indices : /\ tiles[i] # None /\ tiles[i].kind = "colorful_plant"
                          /\ tiles[i].last_watered_at = Some(now)
                          /\ ret.ids = {tiles[i].id}
    /\ \E i \in Indices : tiles[i] # None /\ tiles[i].kind = "tree"


\* ------------------------------------------------------------------------
\* Sunlight: a seed that is watered and evolves, a tree left to die, and
\* apply_sunlight at any moment.
\* ------------------------------------------------------------------------
SunInventory ==
    [default_inventory EXCEPT !["water"] = 10, !["trees"] = 1, !["seeds"] = 1,
                              !["sunlight"] = 1]

InitSun == InitWith(SunInventory)

NextSun ==
    \/ \E idx \in SeedCells : PlaceAtIndex("seed", idx)
    \/ \E idx \in TreeCells : PlaceAtIndex("tree", idx)
    \/ \E idx \in SeedCells : WaterTile(index_to_row(idx), index_to_col(idx))
    \/ RefreshItems(PaletteInputs)
    \/ ApplySunlight
    \/ Tick

SpecSun == InitSun /\ [][NextSun]_vars

\* The cells whose record is the main record of a tile that is not dead at t.
LivingTiles(tl, t) == {i \in Indices : IsMain(tl, i) /\ ~tile_status(tl[i], t).is_dead}

\* C18: apply_sunlight fails with no change when no non-dead tile exists or
\* when sunlight is 0; otherwise it debits exactly 1 sunlight, sets
\* bloom_until = now + 1 day on every non-dead tile, and leaves the records
\* of every dead tile unchanged.
C18_ApplySunlight ==
    [][(ret'.op = "apply_sunlight")
         => IF LivingTiles(tiles, now) = {} \/ inventory["sunlight"] = 0
            THEN ~ret'.ok /\ tiles' = tiles /\ inventory' = inventory
            ELSE /\ ret'.ok
                 /\ inventory' = [inventory EXCEPT !["sunlight"] = @ - 1]
                 /\ \A i \in LivingTiles(tiles, now) :
                       tiles'[i] = [tiles[i] EXCEPT !.bloom_until = Some(now + 1)]
                 /\ \A i \in Indices :
                       (tiles[i] # None /\ tile_status(Resolved(tiles, i), now).is_dead)
                         => tiles'[i] = tiles[i]
                 /\ \A i \in Indices : tiles[i] = None => tiles'[i] = None]_vars

\* Sunlight has been applied on a grid with a dead tree and a living
\* descendant of the seed: the latter blooms until tomorrow, the tree does not.
C18_Witness ==
    /\ ret.op = "apply_sunlight" /\ ret.ok
    /\ inventory["sunlight"] = 0
    /\ \E i \in Indices : /\ tiles[i] # None /\ tiles[i].kind = "tree"
                          /\ tile_status(tiles[i], now).is_dead
                          /\ tiles[i].bloom_until = Absent
    /\ \E i \in Indices : /\ tiles[i] # None /\ tiles[i].kind # "tree"
                          /\ tiles[i].bloom_until = Some(now + 1)


\* ------------------------------------------------------------------------
\* tile_status as a function: one stored tile of every kind, with and
\* without a watering time and a bloom time, read at every later day.
\* ------------------------------------------------------------------------
StatusKinds == {"plant", "tree", "seed", "colorful_plant", "cherry_blossom"}
StatusWatered == {Absent, Some(0), Some(1)}
StatusBlooms == {Absent} \cup {Some(b) : b \in 0 .. StatusBloom}

\* The document holds one tile at index 0, as a stored document may.
InitStatus ==
    \E kind \in StatusKinds, watered \in StatusWatered, bloom \in StatusBlooms :
        /\ now = 0
        /\ inventory = default_inventory
        /\ tiles = [default_garden EXCEPT ![0] =
                      [_create_tile(kind, 0, 0, 1, 0) EXCEPT !.last_watered_at = watered,
                                                             !.bloom_until = bloom]]
        /\ paths = << >>
        /\ aesthetic_mode = "default"
        /\ unlocked_themes = << "default" >>
        /\ nextId = 2
        /\ disk = Saved(inventory, tiles, paths, aesthetic_mode, unlocked_themes)
        /\ tmp = NoFile
        /\ savePc = "idle"
        /\ saveOld = disk
        /\ ret = Ret("load", TRUE, {})
        /\ current_streak = 0
        /\ awarded_multiples = {}

\* tile_status(tile, now) for the tile at idx; ret keeps the status returned.
TileStatusCall(idx) ==
    /\ Idle
    /\ ret' = [op |-> "tile_status", ok |-> TRUE, ids |-> {},
               status |-> tile_status(tiles[idx], now)]
    /\ UNCHANGED <<now, inventory, tiles, paths, aesthetic_mode, unlocked_themes, nextId,
                   disk, tmp, savePc, saveOld, current_streak, awarded_multiples>>

NextStatus ==
    \/ TileStatusCall(0)
    \/ TickDays(1)

SpecStatus == InitStatus /\ [][NextStatus]_vars

\* C19: with idle = now - last_watered_at, tile_status returns exactly one
\* health state.  plant: idle < 1d healthy, 1d <= idle < 2d wilted level 1,
\* 2d <= idle <= 3d wilted level 2, idle > 3d dead; tree: idle < 1d healthy,
\* 1d <= idle <= 2d wilted, idle > 2d dead; seed, colorful_plant and
\* cherry_blossom: idle < 1d healthy, 1d <= idle <= 2d wilted level 1,
\* idle > 2d dead; no last_watered_at: dead.  is_wilted and is_dead are never
\* both true, and the call changes neither the tile nor the document.
C19_HealthStates ==
    [][(ret'.op = "tile_status")
         => LET tile == tiles[0]
                st == ret'.status
                healthy == ~st.is_wilted /\ ~st.is_dead
                wilted(level) == st.is_wilted /\ ~st.is_dead /\ st.wilt_level = level
                dead == st.is_dead /\ ~st.is_wilted
                idle == now - tile.last_watered_at[1]
            IN /\ ~(st.is_wilted /\ st.is_dead)
               /\ ~st.is_empty
               /\ IF tile.last_watered_at = << >> THEN dead
                  ELSE IF tile.kind = "plant"
                  THEN /\ idle < 1 => healthy
                       /\ (1 <= idle /\ idle < 2) => wilted(1)
                       /\ (2 <= idle /\ idle <= 3) => wilted(2)
                       /\ idle > 3 => dead
                  ELSE IF tile.kind = "tree"
                  THEN /\ idle < 1 => healthy
                       /\ (1 <= idle /\ idle <= 2) => (st.is_wilted /\ ~st.is_dead)
                       /\ idle > 2 => dead
                  ELSE /\ idle < 1 => healthy
                       /\ (1 <= idle /\ idle <= 2) => wilted(1)
                       /\ idle > 2 => dead
               /\ tiles' = tiles
               /\ disk' = disk
               /\ inventory' = inventory]_vars

\* The status of a plant left without water for exactly 3 days has been
\* computed: wilted at level 2, not yet dead.
C19_Witness ==
    /\ ret.op = "tile_status"
    /\ tiles[0].kind = "plant"
    /\ tiles[0].last_watered_at = Some(now - 3)
    /\ ret.status.is_wilted /\ ret.status.wilt_level = 2

\* C20: is_blooming is true exactly when bloom_until is present and
\* bloom_until > now, whatever the health state; a dead tile, one without
\* last_watered_at included, with bloom_until in the future reports both
\* is_dead and is_blooming.
C20_BloomIndependentOfHealth ==
    [][(ret'.op = "tile_status")
         => LET tile == tiles[0]
                st == ret'.status
                future == tile.bloom_until # << >> /\ tile.bloom_until[1] > now
            IN /\ st.is_blooming <=> future
               /\ (future /\ tile.last_watered_at = << >>) => (st.is_dead /\ st.is_blooming)
               /\ (future /\ tile.last_watered_at # << >>
                     /\ now - tile.last_watered_at[1] > 3)
                    => (st.is_dead /\ st.is_blooming)]_vars

\* The status of a tile that has no watering time and a bloom time in the
\* future has been computed: dead and blooming.
C20_Witness ==
    /\ ret.op = "tile_status"
    /\ tiles[0].last_watered_at = Absent
    /\ tiles[0].bloom_until # Absent /\ Val(tiles[0].bloom_until) > now
    /\ ret.status.is_dead /\ ret.status.is_blooming


\* ------------------------------------------------------------------------
\* Evolution: the session starts on day EvolveStart from a stored document
\* with one tile planted about a week earlier; the user waters it, moves it,
\* places and removes a neighbour, and the scene is refreshed.
\* ------------------------------------------------------------------------
EvolveInventory ==
    [default_inventory EXCEPT !["water"] = 6, !["plants"] = 1, !["trees"] = 1]

EvolveKinds == {"seed", "colorful_plant", "plant"}
EvolveCells == {Cell(0, 1), Cell(2, 0)}
EvolvePlanted == {0, 1}
EvolveWatered == {EvolveStart - 3, EvolveStart - 2, EvolveStart}
EvolvePalette == {c \in COLORFUL_PLANT_COLORS : c \in {"red", "teal"}}

\* The stored tile: as _create_tile made it, and for a colorful plant as the
\* first evolution left it.
StoredTile(kind, idx, planted, watered) ==
    [_create_tile(kind, index_to_row(idx), index_to_col(idx), 1, planted)
        EXCEPT !.last_watered_at = Some(watered),
               !.evolution_stage = IF kind = "colorful_plant" THEN kind ELSE @,
               !.color = IF kind = "colorful_plant" THEN "teal" ELSE @]

InitEvolve ==
    \E kind \in EvolveKinds, idx \in EvolveCells,
       planted \in EvolvePlanted, watered \in EvolveWatered :
        /\ now = EvolveStart
        /\ inventory = EvolveInventory
        /\ tiles = [default_garden EXCEPT ![idx] = StoredTile(kind, idx, planted, watered)]
        /\ paths = << >>
        /\ aesthetic_mode = "default"
        /\ unlocked_themes = << "default" >>
        /\ nextId = 2
        /\ disk = Saved(inventory, tiles, paths, aesthetic_mode, unlocked_themes)
        /\ tmp = NoFile
        /\ savePc = "idle"
        /\ saveOld = disk
        /\ ret = Ret("load", TRUE, {})
        /\ current_streak = 0
        /\ awarded_multiples = {}

NextEvolve ==
    \/ RefreshItems(EvolvePalette)
    \/ WaterTile(0, 1)
    \/ WaterTile(2, 0)
    \/ PlaceAtIndex("plant", Cell(1, 1))
    \/ PlaceAtIndex("tree", Cell(1, 0))
    \/ RemoveObjectAtIndex(Cell(1, 1))
    \/ MoveTile(Cell(2, 0), Cell(0, 1))
    \/ now < EvolveStart + EvolveDays /\ Tick

SpecEvolve == InitEvolve /\ [][NextEvolve]_vars


Starved(tile, t) ==
    ~IsSome(tile.last_watered_at) \/ t - Val(tile.last_watered_at) > 2

OldEnough(tile, t) ==
    IsSome(tile.planted_at) /\ t - Val(tile.planted_at) >= 7

\* C21: a tile with now - last_watered_at > 2 days never evolves, whatever
\* its planted_at; a tile with now - last_watered_at <= 2 days, a wilted one
\* included, is eligible (a seed old enough evolves); no tile whose status is
\* dead changes kind in any step.
C21_StarvedNeverEvolves ==
    [][\A i \in Indices :
          IsMain(tiles, i) =>
            LET tile == tiles[i] IN
            /\ (ret'.op = "refresh_items" /\ Starved(tile, now)) => tiles'[i] = tile
            /\ (ret'.op = "refresh_items" /\ ~Starved(tile, now)
                  /\ tile.kind = "seed" /\ OldEnough(tile, now))
                 => tiles'[i].kind = "colorful_plant"
            /\ tile_status(tile, now).is_dead
                 => \A j \in Indices :
                      (tiles'[j] # None /\ tiles'[j].id = tile.id)
                        => tiles'[j].kind = tile.kind]_vars

\* The scene has been refreshed over a seed that is a week old and has been
\* without water for more than 2 days: it is still a seed.
C21_Witness ==
    /\ ret.op = "refresh_items"
    /\ \E i \in Indices :
         /\ IsMain(tiles, i) /\ tiles[i].kind = "seed"
         /\ OldEnough(tiles[i], now) /\ Starved(tiles[i], now)

\* C22: on a scene refresh a seed with now - planted_at >= 7 days and
\* now - last_watered_at <= 2 days becomes colorful_plant: it gains a color
\* of the fixed 8-value palette, planted_at becomes now, and id, position and
\* last_watered_at are unchanged; a seed with now - planted_at < 7 days does
\* not evolve.
C22_SeedEvolution ==
    [][(ret'.op = "refresh_items")
         => /\ Cardinality(COLORFUL_PLANT_COLORS) = 8
            /\ \A i \in Indices :
                 (IsMain(tiles, i) /\ tiles[i].kind = "seed"
                    /\ IsSome(tiles[i].planted_at) /\ IsSome(tiles[i].last_watered_at))
                   => LET tile == tiles[i]
                          new == tiles'[i]
                      IN IF now - Val(tile.planted_at) >= 7
                            /\ now - Val(tile.last_watered_at) <= 2
                         THEN /\ new # None
                              /\ new.kind = "colorful_plant"
                              /\ new.color \in COLORFUL_PLANT_COLORS
                              /\ new.planted_at = Some(now)
                              /\ new.id = tile.id
                              /\ new.row = tile.row /\ new.col = tile.col
                              /\ new.last_watered_at = tile.last_watered_at
                              /\ ~new.is_reference
                         ELSE (now - Val(tile.planted_at) < 7) => new = tile]_vars

\* A seed planted 8 days ago and watered today has just become a teal
\* colorful plant.
C22_Witness ==
    /\ ret.op = "refresh_items" /\ ret.ok
    /\ now = 8
    /\ \E i \in Indices :
         /\ IsMain(tiles, i) /\ tiles[i].kind = "colorful_plant"
         /\ tiles[i].color = "teal"
         /\ tiles[i].planted_at = Some(now) /\ tiles[i].last_watered_at = Some(now)
         /\ disk = Saved(inventory, tiles, paths, aesthetic_mode, unlocked_themes)

\* C23: on a scene refresh a colorful_plant at (r,c), a week old and not
\* starved, becomes a cherry_blossom only if r <= H-2, c <= W-2 and the three
\* other cells of the block anchored at (r,c) are free; otherwise the check
\* changes nothing (grid, tile, inventory); the evolution takes place on a
\* later check once the block is free.
C23_EvolutionDeferred ==
    [][(ret'.op = "refresh_items")
         => \A i \in Indices :
              (IsMain(tiles, i) /\ tiles[i].kind = "colorful_plant"
                 /\ tiles[i].evolution_stage = "colorful_plant"
                 /\ OldEnough(tiles[i], now) /\ ~Starved(tiles[i], now))
                => IF IsAnchor(i) /\ \A c \in BlockOf(i) \ {i} : ~Covered(tiles, c)
                   THEN /\ tiles'[i] # None /\ tiles'[i].kind = "cherry_blossom"
                        /\ TwoByTwoConsistent(tiles', tiles[i].id)
                   ELSE /\ tiles' = tiles
                        /\ inventory' = inventory]_vars

MainIds(tl) == {tl[i].id : i \in {k \in Indices : IsMain(tl, k)}}

\* C24: in every step the kind recorded for a tile id stays or changes by
\* seed -> colorful_plant or colorful_plant -> cherry_blossom; the second
\* comes at least 7 days after the first (planted_at is set at the first and
\* kept by a colorful plant); plant and tree never change; moves and
\* evolutions keep the ids; the color of a colorful plant or cherry blossom
\* never changes.
C24_KindStepsAndStableIdentity ==
    [][/\ \A i \in Indices, j \in Indices :
            (tiles[i] # None /\ tiles'[j] # None /\ tiles'[j].id = tiles[i].id)
              => LET old == tiles[i]
                     new == tiles'[j]
                 IN /\ \/ new.kind = old.kind
                       \/ old.kind = "seed" /\ new.kind = "colorful_plant"
                       \/ old.kind = "colorful_plant" /\ new.kind = "cherry_blossom"
                    /\ old.kind \in {"plant", "tree"} => new.kind = old.kind
                    /\ old.kind \in {"colorful_plant", "cherry_blossom"}
                         => new.color = old.color
                    /\ (old.kind = "seed" /\ new.kind = "colorful_plant")
                         => new.planted_at = Some(now)
                    /\ (old.kind = "colorful_plant" /\ new.kind = "colorful_plant")
                         => new.planted_at = old.planted_at
                    /\ (old.kind = "colorful_plant" /\ new.kind = "cherry_blossom")
                         => OldEnough(old, now)
       /\ ret'.op \in {"move_tile", "refresh_items"} => MainIds(tiles') = MainIds(tiles)]_vars

\* The stored teal colorful plant has just become a cherry blossom: same id,
\* same color.
C24_Witness ==
    /\ ret.op = "refresh_items" /\ ret.ok
    /\ IsMain(tiles, Cell(0, 1))
    /\ tiles[Cell(0, 1)].kind = "cherry_blossom"
    /\ tiles[Cell(0, 1)].id = 1
    /\ tiles[Cell(0, 1)].color = "teal"


\* ------------------------------------------------------------------------
\* Themes: the add-on starts from a stored document of the current schema
\* version, written by this or an earlier release; the user unlocks themes,
\* selects modes, answers a card, and the add-on starts again.
\* ------------------------------------------------------------------------
ThemeStoredModes == {"default", "night", "sepia"}
ThemeStoredLists ==
    {Absent, Some(<< >>), Some(<< "default" >>), Some(<< "night" >>),
     Some(<< "default", "night" >>)}
ThemeCoins == {THEME_UNLOCK_PRICE - 1, 2 * THEME_UNLOCK_PRICE}
ThemeInputs == {"default", "night", "summer", "sepia"}

\* The state after construction: load() has run _ensure_defaults over the
\* stored document and saved it back.
InitTheme ==
    \E mode \in ThemeStoredModes, themes \in ThemeStoredLists, coins \in ThemeCoins :
        /\ now = 0
        /\ inventory = [default_inventory EXCEPT !["coins"] = coins]
        /\ tiles = default_garden
        /\ paths = << >>
        /\ aesthetic_mode = _ensure_defaults(mode, themes).aesthetic_mode
        /\ unlocked_themes = _ensure_defaults(mode, themes).unlocked_themes
        /\ nextId = 1
        /\ disk = Saved(inventory, tiles, paths, aesthetic_mode, unlocked_themes)
        /\ tmp = NoFile
        /\ savePc = "idle"
        /\ saveOld = disk
        /\ ret = Ret("load", TRUE, {})
        /\ current_streak = 0
        /\ awarded_multiples = {}

NextTheme ==
    \/ \E mode \in ThemeInputs : UnlockTheme(mode)
    \/ \E mode \in ThemeInputs : SetAestheticMode(mode)
    \/ current_streak < ThemeAnswers /\ HandleAnswer(3)
    \/ current_streak = 0 /\ Load

SpecTheme == InitTheme /\ [][NextTheme]_vars

\* C25: in every reachable state unlocked_themes contains default and
\* aesthetic_mode is a member of unlocked_themes.
C25_ThemeInvariant ==
    /\ is_theme_unlocked(unlocked_themes, "default")
    /\ is_theme_unlocked(unlocked_themes, aesthetic_mode)


Occurrences(themes, mode) == Cardinality({i \in 1 .. Len(themes) : themes[i] = mode})

\* C26: unlock_theme(mode) fails, with coins and unlocked_themes unchanged,
\* when mode is invalid, is default, is already unlocked, or coins < 2000;
\* the reason given for default or an unlocked mode is not the one given
\* for too few coins; otherwise it debits exactly 2000 coins and adds mode to
\* unlocked_themes exactly once.
C26_UnlockTheme ==
    [][(ret'.op = "unlock_theme")
         => LET wording == ret'.message[1]
                mode == ret'.message[2]
                invalid == mode \notin AESTHETIC_MODES
                owned == mode = "default" \/ Occurrences(unlocked_themes, mode) > 0
                poor == inventory["coins"] < 2000
            IN IF invalid \/ owned \/ poor
               THEN /\ ~ret'.ok
                    /\ inventory' = inventory
                    /\ unlocked_themes' = unlocked_themes
                    /\ disk' = disk
                    /\ (~invalid /\ owned) => wording # "Not enough coins"
                    /\ (~invalid /\ ~owned) => wording = "Not enough coins"
               ELSE /\ ret'.ok
                    /\ inventory' = [inventory EXCEPT !["coins"] = @ - 2000]
                    /\ Occurrences(unlocked_themes', mode) = 1
                    /\ \A m \in AESTHETIC_MODES \ {mode} :
                         Occurrences(unlocked_themes', m) = Occurrences(unlocked_themes, m)
                    /\ Len(unlocked_themes') = Len(unlocked_themes) + 1]_vars

\* Two themes have been unlocked with 4000 coins, the second one just now:
\* each is listed once and no coin is left.
C26_Witness ==
    /\ ret.op = "unlock_theme" /\ ret.ok
    /\ inventory["coins"] = 0
    /\ Occurrences(unlocked_themes, "night") = 1
    /\ Occurrences(unlocked_themes, "summer") = 1

\* ------------------------------------------------------------------------
\* The shop: the session starts with a purse around one of the prices and
\* the user buys up to MaxPurchases times.
\* ------------------------------------------------------------------------
ShopCoins ==
    {SHOP_PRICES[item] - 1 : item \in DOMAIN SHOP_PRICES}
        \cup {SHOP_PRICES[item] : item \in DOMAIN SHOP_PRICES}
        \cup {SHOP_PRICES["seeds"] + SHOP_PRICES["sunlight"]}
ShopItems == INVENTORY_KEYS \cup {"gems"}

InitShop ==
    \E coins \in ShopCoins : InitWith([default_inventory EXCEPT !["coins"] = coins])

\* The items bought so far.
Bought(inv) == inv["water"] + inv["plants"] + inv["trees"] + inv["sunlight"]
                 + inv["seeds"] + inv["path"]

NextShop ==
    \/ \E item \in ShopItems : /\ Bought(inventory) < MaxPurchases
                               /\ PurchaseWithCoins(item)
    \/ ret.op # "load" /\ Load

SpecShop == InitShop /\ [][NextShop]_vars

\* C27: purchase_with_coins(item) for a priced item (water 20, plants 50,
\* trees 100, sunlight 200, seeds 1000, path 20) with coins >= price debits
\* exactly the price and credits exactly 1 of the item; with coins < price,
\* or for an item without a price, it fails and leaves every count unchanged.
C27_PurchaseWithCoins ==
    [][(ret'.op = "purchase_with_coins")
         => LET price == [water |-> 20, plants |-> 50, trees |-> 100, sunlight |-> 200,
                          seeds |-> 1000, path |-> 20]
                item == ret'.message[2]
            IN IF item \in DOMAIN price /\ inventory["coins"] >= price[item]
               THEN /\ ret'.ok
                    /\ inventory' = [[inventory EXCEPT !["coins"] = @ - price[item]]
                                        EXCEPT ![item] = @ + 1]
               ELSE /\ ~ret'.ok
                    /\ inventory' = inventory
                    /\ disk' = disk]_vars

\* A seed has just been bought with exactly 1000 coins.
C27_Witness ==
    /\ ret.op = "purchase_with_coins" /\ ret.ok
    /\ inventory["seeds"] = 1
    /\ inventory["coins"] = 0
    /\ Bought(inventory) = 1


\* ------------------------------------------------------------------------
\* The review session: the tracker is new, the inventory is empty, and the
\* user answers cards, rightly or wrongly.
\* ------------------------------------------------------------------------
EaseInputs == 1 .. 4

InitStreak == InitWith(default_inventory)

NextStreak ==
    \E ease \in EaseInputs :
        /\ ease > 1 => inventory["coins"] < StreakAnswers
        /\ HandleAnswer(ease)

SpecStreak == InitStreak /\ [][NextStreak]_vars

\* What n correct answers in a row earn, starting with nothing.
EarnedBy(n) ==
    [key \in INVENTORY_KEYS |->
        IF key = "coins" THEN n
        ELSE IF key = "water" /\ n >= 15 THEN 1
        ELSE IF key = "plants" /\ n >= 30 THEN 1
        ELSE IF key = "trees" /\ n >= 50 THEN 1
        ELSE 0]

FaultPoints == {"none", "save_coin", "save_reward", "tooltip"}

\* StreakTracker.handle_answer when the call at `fault` raises: what it has
\* assigned up to there, what reached the disk, and whether the Exception
\* leaves handle_answer.
handle_answer_raising(inv, streak, awarded, ease, fault) ==
    LET whole == handle_answer(inv, streak, awarded, ease)
        done == [inventory |-> whole.inventory, current_streak |-> whole.current_streak,
                 awarded_multiples |-> whole.awarded_multiples,
                 saved |-> IF whole.saved THEN whole.inventory ELSE inv,
                 has_saved |-> whole.saved, raised |-> FALSE]
        coined == award_token(inv, "coins", 1)
        m == _maybe_award_for_streak(streak + 1, awarded)
    IN IF ease <= 1 THEN done
       ELSE IF fault = "save_coin"
       \* inv[key] is assigned, _save raises, current_streak is not yet changed
       THEN [inventory |-> coined, current_streak |-> streak,
             awarded_multiples |-> awarded, saved |-> inv, has_saved |-> FALSE,
             raised |-> TRUE]
       ELSE IF fault = "save_reward" /\ m.keys # {}
       \* the coin is saved, the key is in the awarded set, the first reward is
       \* assigned and its _save raises
       THEN LET key == CHOOSE k \in m.keys : TRUE
            IN [inventory |-> award_token(coined, key, 1), current_streak |-> streak + 1,
                awarded_multiples |-> m.awarded_multiples, saved |-> coined,
                has_saved |-> TRUE, raised |-> TRUE]
       ELSE IF fault = "tooltip" /\ m.keys # {}
       THEN [done EXCEPT !.raised = TRUE]
       ELSE done

\* The callback without its try and except.
_on_reviewer_did_answer_card_Propagates(inv, streak, awarded, ease, fault) ==
    LET r == handle_answer_raising(inv, streak, awarded, ease, fault)
    IN [outcome |-> r, caught |-> FALSE, raised |-> r.raised]

\* _on_reviewer_did_answer_card: try handle_answer, except Exception: return.
_on_reviewer_did_answer_card(inv, streak, awarded, ease, fault) ==
    LET r == handle_answer_raising(inv, streak, awarded, ease, fault)
    IN [outcome |-> r, caught |-> r.raised, raised |-> FALSE]

\* The reviewer hook fires; ret tells whether the callback raised and whether
\* its except branch ran.
OnReviewerDidAnswerCard(ease, fault) ==
    /\ Idle
    /\ LET c == _on_reviewer_did_answer_card(inventory, current_streak, awarded_multiples,
                                              ease, fault)
       IN /\ inventory' = c.outcome.inventory
          /\ current_streak' = c.outcome.current_streak
          /\ awarded_multiples' = c.outcome.awarded_multiples
          /\ disk' = IF c.outcome.has_saved
                     THEN Saved(c.outcome.saved, tiles, paths, aesthetic_mode,
                                unlocked_themes)
                     ELSE disk
          /\ ret' = [op |-> "_on_reviewer_did_answer_card", ok |-> ease > 1, ids |-> {},
                     raised |-> c.raised, caught |-> c.caught]
    /\ UNCHANGED <<now, tiles, paths, aesthetic_mode, unlocked_themes, nextId, tmp, savePc,
                   saveOld>>

InitFault == InitWith(default_inventory)

NextFault ==
    \E ease \in EaseInputs, fault \in FaultPoints :
        /\ ease > 1 => inventory["coins"] < FaultAnswers
        /\ OnReviewerDidAnswerCard(ease, fault)

SpecFault == InitFault /\ [][NextFault]_vars

\* C30: the answer callback never raises into the review pipeline: when
\* handle_answer raises at any point, _on_reviewer_did_answer_card returns
\* normally.  handle_answer itself lets the fault out: the except branch of
\* the callback runs only after handle_answer stopped at a raising call, and
\* it runs whenever a save failed (memory and disk differ afterwards).
C30_CallbackIsolatesFaults ==
    [][(ret'.op = "_on_reviewer_did_answer_card")
         => /\ ~ret'.raised
            /\ ret'.caught
                 => \E fault \in FaultPoints \ {"none"}, ease \in EaseInputs :
                      LET r == handle_answer_raising(inventory, current_streak,
                                                     awarded_multiples, ease, fault)
                      IN /\ r.raised
                         /\ inventory' = r.inventory
                         /\ current_streak' = r.current_streak
                         /\ awarded_multiples' = r.awarded_multiples
            /\ (disk.doc.inventory = inventory /\ disk'.doc.inventory # inventory')
                 => ret'.caught]_vars

\* The 15th correct answer in a row: the coin was saved, the save of the
\* water reward failed, handle_answer raised and the callback caught it; the
\* water is in memory only.
C30_Witness ==
    /\ ret.op = "_on_reviewer_did_answer_card"
    /\ ret.caught /\ ~ret.raised
    /\ current_streak = 15
    /\ inventory["water"] = 1
    /\ disk.doc.inventory["water"] = 0
    /\ disk.doc.inventory["coins"] = inventory["coins"]


\* ------------------------------------------------------------------------
\* Start-up: AddonState is constructed, load() reads whatever the add-on
\* folder holds, and the user gardens a little.
\* ------------------------------------------------------------------------
StoredPlant(id, row, col) == _create_tile("plant", row, col, id, 0)

\* A document written by an earlier session.
StoredDocument ==
    Serialize([default_inventory EXCEPT !["water"] = 2, !["plants"] = 2],
              [default_garden EXCEPT ![Cell(1, 1)] = StoredPlant(10, 1, 1)],
              << >>, "default", << "default" >>)

\* Width, height and length of the tiles array of a stored garden.
StoredShapes ==
    {<<2, 2, 4>>, <<4, 2, 8>>, <<2, 4, 8>>, <<4, 4, 16>>, <<2, 2, 5>>, <<4, 4, 12>>,
     <<0, 0, 0>>, <<-2, -2, 4>>}

\* A garden of the given shape with a plant on every cell, numbered from 10.
StoredGarden(shape) ==
    [StoredDocument EXCEPT
        !.width = shape[1], !.height = shape[2],
        !.tiles = [i \in 0 .. shape[3] - 1 |->
                     IF shape[1] > 0
                     THEN StoredPlant(10 + i, i \div shape[1], i % shape[1])
                     ELSE StoredPlant(10 + i, 0, i)]]

StoredFiles ==
    {NoFile, FileOf(StoredDocument, TextChunks), FileOf(StoredDocument, 1)}
      \cup {FileOf([StoredDocument EXCEPT !.root = root], TextChunks) :
              root \in {"array", "string"}}
      \cup {FileOf([StoredDocument EXCEPT !.schema_version = version], TextChunks) :
              version \in {Absent, Some(0), Some(2)}}
      \cup {FileOf(StoredGarden(shape), TextChunks) : shape \in StoredShapes}

\* AddonState(base_dir): data is initial_state(); the folder holds some file.
InitLoad ==
    /\ now = 0
    /\ inventory = initial_state.inventory
    /\ tiles = initial_state.tiles
    /\ paths = initial_state.paths
    /\ aesthetic_mode = initial_state.aesthetic_mode
    /\ unlocked_themes = initial_state.unlocked_themes
    /\ nextId = 1
    /\ disk \in StoredFiles
    /\ tmp = NoFile
    /\ savePc = "idle"
    /\ saveOld = disk
    /\ ret = Ret("AddonState", TRUE, {})
    /\ current_streak = 0
    /\ awarded_multiples = {}

LoadCells == {Cell(0, 0), Cell(1, 1), Cell(2, 2)}

NextLoad ==
    \/ Load
    \/ \E idx \in LoadCells : ret.op # "AddonState" /\ PlaceAtIndex("plant", idx)
    \/ \E idx \in LoadCells : ret.op # "AddonState" /\ RemoveObjectAtIndex(idx)

SpecLoad == InitLoad /\ [][NextLoad]_vars

\* The file cannot be used: missing, not parseable, root not an object,
\* schema_version missing or below 1.
Unusable(f) ==
    \/ ~f.exists
    \/ f.len # TextChunks
    \/ f.doc.root # "object"
    \/ f.doc.schema_version = << >>
    \/ f.doc.schema_version[1] < 1

\* C31: load() with a missing file, an unparseable file, a file whose root
\* is not an object, or a document whose schema_version is missing or below
\* 1 leaves the fresh initial document in memory (water 3, plants 1, every
\* other count 0, empty grid of W x H cells, mode default, only default
\* unlocked, no paths), writes that document to disk and surfaces no error.
C31_LoadFallsBackToFresh ==
    [][(ret'.op = "load" /\ Unusable(disk))
         => /\ ret'.ok
            /\ inventory' = [key \in INVENTORY_KEYS |->
                               IF key = "water" THEN 3 ELSE IF key = "plants" THEN 1 ELSE 0]
            /\ DOMAIN tiles' = 0 .. GARDEN_WIDTH * GARDEN_HEIGHT - 1
            /\ \A i \in DOMAIN tiles' : tiles'[i] = None
            /\ paths' = << >>
            /\ aesthetic_mode' = "default"
            /\ unlocked_themes' = << "default" >>
            /\ disk'.exists /\ disk'.len = TextChunks
            /\ disk'.doc.root = "object"
            /\ disk'.doc.schema_version = << 1 >>
            /\ disk'.doc.inventory = inventory'
            /\ disk'.doc.tiles = tiles'
            /\ disk'.doc.paths = << >>
            /\ disk'.doc.aesthetic_mode = "default"
            /\ disk'.doc.unlocked_themes = << "default" >>]_vars

\* load() has just replaced an unusable file by the fresh document (no
\* usable stored document equals it).
C31_Witness ==
    /\ ret.op = "load" /\ ret.ok
    /\ inventory["water"] = 3 /\ inventory["plants"] = 1
    /\ disk = FileOf(initial_state, TextChunks)
    /\ saveOld # disk

\* C33: when load() reads a tiles array whose length differs from W*H: if
\* the stored width and height are positive and width*height is the length,
\* the tile stored at old (row, col) ends at new index row*W + col for every
\* row < min(old height, H) and col < min(old width, W), and every other
\* cell is empty; otherwise the first min(len, W*H) entries are copied
\* positionally and the rest are empty.  The result has exactly W*H cells.
C33_GridResize ==
    [][(ret'.op = "load" /\ ~Unusable(disk)
          /\ Cardinality(DOMAIN disk.doc.tiles) # GARDEN_WIDTH * GARDEN_HEIGHT)
         => LET old == disk.doc.tiles
                len == Cardinality(DOMAIN old)
                w == disk.doc.width
                h == disk.doc.height
                cells == GARDEN_WIDTH * GARDEN_HEIGHT
            IN /\ DOMAIN tiles' = 0 .. cells - 1
               /\ IF w > 0 /\ h > 0 /\ w * h = len
                  THEN \A row \in 0 .. GARDEN_HEIGHT - 1, col \in 0 .. GARDEN_WIDTH - 1 :
                         tiles'[row * GARDEN_WIDTH + col]
                           = IF row < h /\ col < w THEN old[row * w + col] ELSE None
                  ELSE \A i \in 0 .. cells - 1 :
                         tiles'[i] = IF i < len THEN old[i] ELSE None]_vars

\* load() has just read a garden stored 4 wide and 2 high: the tile of old
\* (1, 1), the sixth of the array, is at (1, 1) and the third row is empty.
C33_Witness ==
    /\ ret.op = "load"
    /\ tiles[Cell(1, 1)].id = 15
    /\ tiles[Cell(0, 2)].id = 12
    /\ tiles[Cell(2, 0)] = None
    /\ disk.doc.tiles = tiles


\* C32: round trip: saving the document in memory and calling load() yields
\* a document with the same inventory, tiles, paths and aesthetic settings,
\* and a second load() of the file the first one rewrote yields the same
\* document and rewrites the same file.
C32_SaveLoadRoundTrip ==
    LET first == load(Saved(inventory, tiles, paths, aesthetic_mode, unlocked_themes))
        second == load(FileOf(first, TextChunks))
    IN /\ first.inventory = inventory
       /\ first.tiles = tiles
       /\ first.paths = paths
       /\ first.aesthetic_mode = aesthetic_mode
       /\ first.unlocked_themes = unlocked_themes
       /\ second = first

\* C37: water_all fails and changes nothing when no tile is alive or no water
\* is left; otherwise it takes exactly one water whatever the number and the
\* kinds of the tiles, stamps last_watered_at = now on every tile that is not
\* dead and leaves the records of the dead tiles as they were.
C37_WaterAll ==
    [][ret'.op = "water_all" =>
         IF ~HasLiving(tiles, now) \/ inventory["water"] = 0
         THEN /\ ~ret'.ok
              /\ inventory' = inventory
              /\ tiles' = tiles
              /\ disk' = disk
         ELSE /\ ret'.ok
              /\ inventory' = [inventory EXCEPT !["water"] = @ - 1]
              /\ \A i \in Indices :
                    IF tiles[i] = None THEN tiles'[i] = None
                    ELSE IF tile_status(tiles[i], now).is_dead
                    THEN tiles'[i] = tiles[i]
                    ELSE tiles'[i] = [tiles[i] EXCEPT !.last_watered_at = Some(now)]]_vars

\* One water has refreshed a living tile while a dead tile, last watered on
\* an earlier day, stands in the same garden.
C37_Witness ==
    /\ ret.op = "water_all"
    /\ ret.ok
    /\ \E i \in Indices : tiles[i] # None /\ tiles[i].last_watered_at = Some(now)
    /\ \E i \in Indices : /\ tiles[i] # None
                           /\ tile_status(tiles[i], now).is_dead
                           /\ tiles[i].last_watered_at # Some(now)

MaxAge == 10
\* The days the clock runs after the start.
BlossomDays == 1

BlossomInventory == [default_inventory EXCEPT !["water"] = 4, !["sunlight"] = 1]
ForwardInputs == 0 .. 2
BlossomMoves == {<<Cell(0, 0), Cell(0, 1)>>, <<Cell(0, 1), Cell(0, 0)>>,
                 <<Cell(1, 1), Cell(0, 1)>>}
BlossomWaterCells == {<<1, 1>>}

InitBlossom ==
    /\ now = EvolveStart
    /\ inventory = BlossomInventory
    /\ tiles = [default_garden EXCEPT
                  ![Cell(0, 0)] = StoredTile("colorful_plant", Cell(0, 0), 1, EvolveStart),
                  ![Cell(2, 2)] = [StoredTile("plant", Cell(2, 2), 0, EvolveStart - 1)
                                      EXCEPT !.id = 2]]
    /\ paths = << >>
    /\ aesthetic_mode = "default"
    /\ unlocked_themes = << "default" >>
    /\ nextId = 3
    /\ disk = Saved(inventory, tiles, paths, aesthetic_mode, unlocked_themes)
    /\ tmp = NoFile
    /\ savePc = "idle"
    /\ saveOld = disk
    /\ ret = Ret("load", TRUE, {})
    /\ current_streak = 0
    /\ awarded_multiples = {}

\* The oldest planting is at most `age` days back.
NoOlderThan(tl, t, age) ==
    \A i \in Indices :
        (tl[i] # None /\ IsSome(tl[i].planted_at)) => t - Val(tl[i].planted_at) <= age

NextBlossom ==
    \/ RefreshItems(EvolvePalette)
    \/ \E rc \in BlossomWaterCells : WaterTile(rc[1], rc[2])
    \/ WaterAll
    \/ ApplySunlight
    \/ \E days \in ForwardInputs :
         /\ NoOlderThan(tiles, now, MaxAge - days)
         /\ FastForwardTime(days)
    \/ \E m \in BlossomMoves : MoveTile(m[1], m[2])
    \/ ClearDead
    \/ now < EvolveStart + BlossomDays /\ Tick

SpecBlossom == InitBlossom /\ [][NextBlossom]_vars

\* The cells whose record is the primary record of tile `id`.
PrimaryCells(tl, id) ==
    {i \in Indices : tl[i] # None /\ tl[i].id = id /\ ~tl[i].is_reference}

Mirrored(tile) ==
    [id |-> tile.id, kind |-> tile.kind, color |-> tile.color,
     planted_at |-> tile.planted_at, last_watered_at |-> tile.last_watered_at,
     bloom_until |-> tile.bloom_until]

\* C35: in every reachable state each reference record of a 2x2 tile has a
\* primary record with the same id, kind, color, planted_at, last_watered_at
\* and bloom_until, so that the status computed on the reference is the
\* status computed on the primary: water_tile, water_all, apply_sunlight
\* and fast_forward_time change the references as they change the primary.
C35_ReferencesMirrorPrimary ==
    \A i \in Indices :
        (tiles[i] # None /\ tiles[i].is_reference)
            => \E p \in PrimaryCells(tiles, tiles[i].id) :
                  /\ Mirrored(tiles[i]) = Mirrored(tiles[p])
                  /\ tile_status(tiles[i], now) = tile_status(tiles[p], now)

\* C36: fast_forward_time(n), n >= 0, does what n days passing do: it makes
\* planted_at, last_watered_at and bloom_until of every record, primary or
\* reference, n days older and changes nothing else (no inventory count, no
\* kind, no position), so that the status and the evolution eligibility of
\* every tile at `now` afterwards are those of the unshifted tile at now + n;
\* it returns True iff a timestamp was there to shift.
C36_FastForwardIsElapsedTime ==
    [][ret'.op = "fast_forward_time" =>
         \E n \in ForwardInputs :
            /\ now' = now
            /\ inventory' = inventory
            /\ ret'.ok <=> \E i \in Indices : tiles[i] # None /\ HasTimestamp(tiles[i])
            /\ \A i \in Indices :
                  IF tiles[i] = None THEN tiles'[i] = None
                  ELSE /\ tiles'[i] =
                            [tiles[i] EXCEPT !.planted_at = ShiftBack(@, n),
                                             !.last_watered_at = ShiftBack(@, n),
                                             !.bloom_until = ShiftBack(@, n)]
                       /\ tile_status(tiles'[i], now) = tile_status(tiles[i], now + n)
                       /\ \A color \in EvolvePalette :
                             _evolve_tile_if_needed(tiles', i, now, color).ok
                                = _evolve_tile_if_needed(tiles, i, now + n, color).ok]_vars

\* Days were skipped on a cherry blossom with its references, given
\* sunlight before: its bloom has run out and the whole block needs water,
\* while the plant beside it has died.
C36_Witness ==
    /\ ret.op = "fast_forward_time" /\ ret.ok
    /\ \E i \in Indices :
          /\ tiles[i] # None /\ tiles[i].is_reference
          /\ IsSome(tiles[i].bloom_until)
          /\ ~tile_status(tiles[i], now).is_blooming
          /\ tile_status(tiles[i], now).is_wilted
    /\ tile_status(tiles[Cell(2, 2)], now).is_dead
    /\ disk.doc.tiles = tiles

\* ------------------------------------------------------------------------
\* The saves inside one call.  spend_token and award_token end with _save,
\* and their callers save again after writing the effect: the versions of
\* the document a call hands to _save, in order.
\* ------------------------------------------------------------------------
Version(inv, tl, ps) == [inventory |-> inv, tiles |-> tl, paths |-> ps]

\* water_all: has_living, spend_token("water", 1) and its _save, the loop
\* over the tiles, _save.
water_all_saves(inv, tl, ps, t) ==
    LET r == water_all(inv, tl, t)
    IN IF ~r.ok THEN << >>
       ELSE << Version(spend_token(inv, "water", 1).inventory, tl, ps),
               Version(r.inventory, r.tiles, ps) >>

\* apply_sunlight: has_living, spend_token("sunlight", 1) and its _save,
\* the loop over the tiles, _save.
apply_sunlight_saves(inv, tl, ps, t) ==
    LET r == apply_sunlight(inv, tl, t)
    IN IF ~r.ok THEN << >>
       ELSE << Version(spend_token(inv, "sunlight", 1).inventory, tl, ps),
               Version(r.inventory, r.tiles, ps) >>

\* place_path: the checks, spend_token("path", 1) and its _save,
\* paths.append(path_key), _save.
place_path_saves(inv, tl, ps, row, col, direction) ==
    LET r == place_path(inv, ps, row, col, direction)
    IN IF ~r.ok THEN << >>
       ELSE << Version(spend_token(inv, "path", 1).inventory, tl, ps),
               Version(r.inventory, tl, r.paths) >>

\* remove_path: paths.remove(path_key), award_token("path", 1) and its
\* _save, _save.
remove_path_saves(inv, tl, ps, row, col, direction) ==
    LET r == remove_path(inv, ps, row, col, direction)
    IN IF ~r.ok THEN << >>
       ELSE << Version(award_token(inv, "path", 1), tl, r.paths),
               Version(r.inventory, tl, r.paths) >>

\* A call starts: it returns False when it saves nothing, and otherwise runs
\* up to the return of its first _save; the versions still to be written
\* wait in ret.
CallSaving(op, saves) ==
    /\ Idle
    /\ IF saves = << >>
       THEN /\ ret' = [op |-> op, ok |-> FALSE, ids |-> {}, pending |-> << >>]
            /\ UNCHANGED <<inventory, tiles, paths, disk, savePc>>
       ELSE /\ inventory' = saves[1].inventory
            /\ tiles' = saves[1].tiles
            /\ paths' = saves[1].paths
            /\ disk' = Saved(saves[1].inventory, saves[1].tiles, saves[1].paths,
                             aesthetic_mode, unlocked_themes)
            /\ savePc' = IF Len(saves) > 1 THEN "saved" ELSE "idle"
            /\ ret' = [op |-> op, ok |-> Len(saves) = 1, ids |-> {},
                       pending |-> Tail(saves)]
    /\ UNCHANGED <<now, aesthetic_mode, unlocked_themes, nextId, tmp, saveOld,
                   current_streak, awarded_multiples>>

\* The call goes on to its next _save; after the last one it returns True.
ResumeSaving ==
    /\ savePc = "saved"
    /\ LET v == Head(ret.pending)
       IN /\ inventory' = v.inventory
          /\ tiles' = v.tiles
          /\ paths' = v.paths
          /\ disk' = Saved(v.inventory, v.tiles, v.paths, aesthetic_mode, unlocked_themes)
    /\ savePc' = IF Len(ret.pending) > 1 THEN "saved" ELSE "idle"
    /\ ret' = [ret EXCEPT !.ok = Len(ret.pending) = 1, !.pending = Tail(@)]
    /\ UNCHANGED <<now, aesthetic_mode, unlocked_themes, nextId, tmp, saveOld,
                   current_streak, awarded_multiples>>

\* The process dies between two saves of a call and is started again:
\* load() reads what the last save left.
CrashBetweenSaves ==
    /\ savePc = "saved"
    /\ LET d == load(disk)
       IN /\ inventory' = d.inventory
          /\ tiles' = d.tiles
          /\ paths' = d.paths
          /\ aesthetic_mode' = d.aesthetic_mode
          /\ unlocked_themes' = d.unlocked_themes
          /\ disk' = FileOf(d, TextChunks)
    /\ savePc' = "idle"
    /\ ret' = [op |-> "load", ok |-> TRUE, ids |-> {}, pending |-> << >>]
    /\ current_streak' = 0
    /\ awarded_multiples' = {}
    /\ UNCHANGED <<now, nextId, tmp, saveOld>>

\* The days the clock runs in the garden below.
DebitDays == 2
DebitInventory ==
    [default_inventory EXCEPT !["water"] = 2, !["sunlight"] = 1, !["path"] = 2]
DebitEdges == {<<0, 0, "n">>, <<0, 0, "e">>}

\* A stored garden with one plant, watered at planting.
InitDebit ==
    /\ now = 0
    /\ inventory = DebitInventory
    /\ tiles = [default_garden EXCEPT ![Cell(0, 0)] = _create_tile("plant", 0, 0, 1, 0)]
    /\ paths = << >>
    /\ aesthetic_mode = "default"
    /\ unlocked_themes = << "default" >>
    /\ nextId = 2
    /\ disk = Saved(inventory, tiles, paths, aesthetic_mode, unlocked_themes)
    /\ tmp = NoFile
    /\ savePc = "idle"
    /\ saveOld = disk
    /\ ret = [op |-> "load", ok |-> TRUE, ids |-> {}, pending |-> << >>]
    /\ current_streak = 0
    /\ awarded_multiples = {}

DayPasses ==
    /\ Idle
    /\ now < DebitDays
    /\ now' = now + 1
    /\ ret' = [op |-> "tick", ok |-> TRUE, ids |-> {}, pending |-> << >>]
    /\ UNCHANGED <<inventory, tiles, paths, aesthetic_mode, unlocked_themes, nextId,
                   disk, tmp, savePc, saveOld, current_streak, awarded_multiples>>

NextDebit ==
    \/ CallSaving("water_all", water_all_saves(inventory, tiles, paths, now))
    \/ CallSaving("apply_sunlight", apply_sunlight_saves(inventory, tiles, paths, now))
    \/ \E e \in DebitEdges :
         CallSaving("place_path", place_path_saves(inventory, tiles, paths, e[1], e[2], e[3]))
    \/ \E e \in DebitEdges :
         CallSaving("remove_path",
                    remove_path_saves(inventory, tiles, paths, e[1], e[2], e[3]))
    \/ ResumeSaving
    \/ CrashBetweenSaves
    \/ DayPasses

SpecDebit == InitDebit /\ [][NextDebit]_vars

\* C39: every version of the document that water_all, apply_sunlight,
\* place_path and remove_path write holds the debit or credit of the token
\* together with its effect: a write that lowers path adds an edge, a write
\* that raises path deletes one, a write that lowers water leaves every
\* living tile with last_watered_at = now and a write that lowers sunlight
\* leaves every living tile with bloom_until = now + 1.
C39_DebitAndEffectTogether ==
    [][disk' # disk =>
         LET old == disk.doc
             new == disk'.doc
             living == {i \in Indices :
                          old.tiles[i] # None /\ ~tile_status(old.tiles[i], now).is_dead}
         IN /\ new.inventory["path"] < old.inventory["path"]
                  => Len(new.paths) > Len(old.paths)
            /\ new.inventory["path"] > old.inventory["path"]
                  => Len(new.paths) < Len(old.paths)
            /\ new.inventory["water"] < old.inventory["water"]
                  => \A i \in living : new.tiles[i].last_watered_at = Some(now)
            /\ new.inventory["sunlight"] < old.inventory["sunlight"]
                  => \A i \in living : new.tiles[i].bloom_until = Some(now + 1)]_vars

====
